---- MODULE Spec2Model ----
(***************************************************************************)
(* Always-defined attribute analysis of mypyc (mypyc/analysis/attrdefined). *)
(*                                                                         *)
(* The program is the batch pass analyze_always_defined_attrs(class_irs):  *)
(* three sequential loops over the class list (single-class resolver,      *)
(* subclass propagator, bitmap allocator).  One action models one          *)
(* iteration of one of these loops, including the whole recursion the      *)
(* called function performs.                                               *)
(*                                                                         *)
(* Conventions.  Sequences are 1-based: block 1 is the entry block and     *)
(* op 1 is the first op of a block (source index 0).  A class is named by  *)
(* a string; the table ir maps a name to its ClassIR record.  "None" is    *)
(* the name used where the source has None.                                *)
(***************************************************************************)
EXTENDS Integers, Sequences, FiniteSets, TLC

VARIABLES
    ir,              \* name -> ClassIR record (input, never changed)
    class_irs,       \* the list passed to analyze_always_defined_attrs
    pc,              \* "resolve" | "propagate" | "bitmap" | "done"
    idx,             \* position of the running for-loop in class_irs
    seen,            \* the seen set of the running pass
    always,          \* name -> ClassIR._always_initialized_attrs
    sometimes,       \* name -> ClassIR._sometimes_initialized_attrs
    init_self_leak,  \* name -> ClassIR.init_self_leak
    bitmap_attrs,    \* name -> ClassIR.bitmap_attrs (a sequence)
    is_init,         \* set of <<function owner, block, op>>: SetAttr.is_init
    flow,            \* name -> locals of the resolver body for that class
    log,             \* history: the visits and field updates made so far
    stack            \* call stack of the propagator when it is run step by step

vars == <<ir, class_irs, pc, idx, seen, always, sometimes, init_self_leak,
          bitmap_attrs, is_init, flow, log, stack>>

None == "None"

\* One entry of the history.  kind "visit": seen.add(cl) of the pass;
\* "body": the resolver reached line 149 for cl; "write": a statement of
\* the pass that assigns or updates field of cl, value being the new value.
Event(pass, kind, cl, field, value) ==
    [pass |-> pass, kind |-> kind, cl |-> cl, field |-> field, value |-> value]

(***************************************************************************)
(* IR ops (mypyc.ir.ops).  obj_self: the op's obj / an argument is the     *)
(* receiver register self_reg.  init_of: for a Call, the class whose       *)
(* __init__ is called (fn.class_name with fn.name == "__init__"), or None  *)
(* for any other callee.                                                   *)
(***************************************************************************)
Op(k, a, s, c, t) == [kind |-> k, attr |-> a, obj_self |-> s, init_of |-> c, targets |-> t]
SetAttr(a)     == Op("SetAttr", a, TRUE, None, <<>>)
GetAttr(a)     == Op("GetAttr", a, TRUE, None, <<>>)
CallInit(c)    == Op("Call", "", TRUE, c, <<>>)
CallOther      == Op("Call", "", TRUE, None, <<>>)
\* c.__init__ called on an object held in another register than self_reg
CallInitOther(c) == Op("Call", "", FALSE, c, <<>>)
Goto(t)        == Op("Goto", "", FALSE, None, <<t>>)
Branch(t, f)   == Op("Branch", "", FALSE, None, <<t, f>>)
Return         == Op("Return", "", FALSE, None, <<>>)
Unreachable    == Op("Unreachable", "", FALSE, None, <<>>)

IsControlOp(op) == op.kind \in {"Goto", "Branch", "Return", "Unreachable"}
IsInitCall(op)  == op.kind = "Call" /\ op.init_of # None

Range(s) == {s[i] : i \in DOMAIN s}

\* The single element of a one-element set
Value(S) == CHOOSE v \in S : TRUE

(***************************************************************************)
(* ClassIR queries (mypyc.ir.class_ir).                                    *)
(***************************************************************************)
\* ClassIR.get_method("__init__"): the first class of the MRO that defines
\* the method; the result names the function by its defining class.
RECURSIVE get_method_from(_, _, _)
get_method_from(tab, mro, i) ==
    IF i > Len(mro) THEN None
    ELSE IF tab[mro[i]].init_blocks # <<>> THEN mro[i]
    ELSE get_method_from(tab, mro, i + 1)

get_method(tab, cl) == get_method_from(tab, tab[cl].mro, 1)

\* ClassIR.is_deletable(name)
is_deletable(tab, cl, a) == \E b \in Range(tab[cl].mro) : a \in tab[b].deletable

\* ClassIR.is_always_defined(name), reading the current result field
is_always_defined(tab, alw, cl, a) == ~is_deletable(tab, cl, a) /\ a \in alw[cl]

\* ClassIR.is_serializable()
is_serializable(tab, cl) == \E b \in Range(tab[cl].mro) : tab[b].serializable

\* Serializable classes are analysed like any other class
GivesUpUnlessSerializable(tab, cl) ==
    \/ tab[cl].is_trait
    \/ tab[cl].inherits_python
    \/ tab[cl].allow_interpreted_subclasses
    \/ tab[cl].builtin_base
    \/ tab[cl].children_none

\* Lines 134-141: the conditions under which the resolver gives up on a class
GivesUp(tab, cl) ==
    \/ tab[cl].is_trait
    \/ tab[cl].inherits_python
    \/ tab[cl].allow_interpreted_subclasses
    \/ tab[cl].builtin_base
    \/ tab[cl].children_none
    \/ is_serializable(tab, cl)

(***************************************************************************)
(* CFG and the dataflow engine (mypyc.analysis.dataflow).                  *)
(***************************************************************************)
Terminator(block) == block[Len(block)]

\* get_cfg: successors are the targets of the terminator (blocks carry no
\* error handlers when this pass runs)
Succ(blocks, b) == Range(Terminator(blocks[b]).targets)
Pred(blocks, b) == {p \in DOMAIN blocks : b \in Succ(blocks, p)}

\* Effect of a block on gen/kill: gk is the sequence of <<gen, kill>> of its ops
RECURSIVE block_gen_kill(_, _, _, _)
block_gen_kill(gk, i, gen, kill) ==
    IF i > Len(gk) THEN <<gen, kill>>
    ELSE block_gen_kill(gk, i + 1,
                        (gen \ gk[i][2]) \cup gk[i][1],
                        (kill \ gk[i][1]) \cup gk[i][2])

\* The worklist loop of run_analysis for a forward MAYBE_ANALYSIS: the least
\* solution of  before[b] = initial if b has no predecessor, else the union of
\* after[p] over its predecessors;  after[b] = (before[b] - kill[b]) | gen[b].
BlockBefore(blocks, after, initial, b) ==
    IF Pred(blocks, b) = {} THEN initial
    ELSE UNION {after[p] : p \in Pred(blocks, b)}

RECURSIVE worklist(_, _, _, _)
worklist(blocks, bgk, initial, after) ==
    LET next == [b \in DOMAIN blocks |->
                    (BlockBefore(blocks, after, initial, b) \ bgk[b][2]) \cup bgk[b][1]]
    IN  IF next = after THEN after ELSE worklist(blocks, bgk, initial, next)

\* Opcode-level sets of one block: <<before, after>> sequences
RECURSIVE op_sets(_, _, _, _, _)
op_sets(gk, i, cur, bef, aft) ==
    IF i > Len(gk) THEN <<bef, aft>>
    ELSE LET nxt == (cur \ gk[i][2]) \cup gk[i][1]
         IN  op_sets(gk, i + 1, nxt, Append(bef, cur), Append(aft, nxt))

\* run_analysis(blocks, cfg, gen_and_kill, initial, backward=False,
\* kind=MAYBE_ANALYSIS); gk[b][i] is the visitor's <<gen, kill>> for op i of b.
run_analysis(blocks, gk, initial) ==
    LET bgk   == [b \in DOMAIN blocks |-> block_gen_kill(gk[b], 1, {}, {})]
        after == worklist(blocks, bgk, initial, [b \in DOMAIN blocks |-> {}])
        sets  == [b \in DOMAIN blocks |->
                    op_sets(gk[b], 1, BlockBefore(blocks, after, initial, b), <<>>, <<>>)]
    IN  [before |-> [b \in DOMAIN blocks |-> sets[b][1]],
         after  |-> [b \in DOMAIN blocks |-> sets[b][2]]]

(***************************************************************************)
(* Self-leak analysis (mypyc.analysis.selfleaks): the set {"self"} stands  *)
(* for the source's {None} ("dirty").                                      *)
(***************************************************************************)
DIRTY == <<{"self"}, {}>>
CLEAN == <<{}, {}>>

\* SelfLeakedVisitor: every Return is dirty; a call that receives self is
\* dirty unless it is an __init__ call of a class whose init_self_leak is False
SelfLeakedVisitor(leak, op) ==
    IF op.kind = "Return" THEN DIRTY
    ELSE IF op.kind = "Call" THEN
        IF IsInitCall(op) /\ ~leak[op.init_of] THEN CLEAN
        ELSE IF op.obj_self THEN DIRTY ELSE CLEAN
    ELSE CLEAN

analyze_self_leaks(blocks, leak) ==
    run_analysis(blocks,
                 [b \in DOMAIN blocks |->
                     [i \in DOMAIN blocks[b] |-> SelfLeakedVisitor(leak, blocks[b][i])]],
                 {})

(***************************************************************************)
(* attrdefined.py: the two definedness passes.                             *)
(***************************************************************************)
attributes_initialized_by_init_call(tab, alw, cl) ==
    {a \in UNION {Range(tab[b].attributes) : b \in Range(tab[cl].mro)} :
        \E b \in Range(tab[cl].mro) :
            a \in Range(tab[b].attributes) /\ is_always_defined(tab, alw, b, a)}

attributes_maybe_initialized_by_init_call(tab, alw, smt, cl) ==
    attributes_initialized_by_init_call(tab, alw, cl) \cup smt[cl]

AttributeMaybeDefinedVisitor(tab, alw, smt, op) ==
    IF op.kind = "SetAttr" /\ op.obj_self THEN <<{op.attr}, {}>>
    ELSE IF IsInitCall(op)
         THEN <<attributes_maybe_initialized_by_init_call(tab, alw, smt, op.init_of), {}>>
    ELSE <<{}, {}>>

\* The maybe-defined analysis started from the empty set
analyze_maybe_defined_from_nothing(tab, alw, smt, blocks, attrs_with_defaults) ==
    run_analysis(blocks,
                 [b \in DOMAIN blocks |->
                     [i \in DOMAIN blocks[b] |->
                         AttributeMaybeDefinedVisitor(tab, alw, smt, blocks[b][i])]],
                 {})

analyze_maybe_defined_attrs_in_init(tab, alw, smt, blocks, attrs_with_defaults) ==
    run_analysis(blocks,
                 [b \in DOMAIN blocks |->
                     [i \in DOMAIN blocks[b] |->
                         AttributeMaybeDefinedVisitor(tab, alw, smt, blocks[b][i])]],
                 attrs_with_defaults)

\* __init__ calls are not interpreted
MaybeUndefinedIgnoresInitCalls(tab, alw, op) ==
    IF op.kind = "SetAttr" /\ op.obj_self THEN <<{}, {op.attr}>>
    ELSE <<{}, {}>>

AttributeMaybeUndefinedVisitor(tab, alw, op) ==
    IF op.kind = "SetAttr" /\ op.obj_self THEN <<{}, {op.attr}>>
    ELSE IF IsInitCall(op)
         THEN <<{}, attributes_initialized_by_init_call(tab, alw, op.init_of)>>
    ELSE <<{}, {}>>

analyze_maybe_undefined_attrs_in_init(tab, alw, blocks, initial_undefined) ==
    run_analysis(blocks,
                 [b \in DOMAIN blocks |->
                     [i \in DOMAIN blocks[b] |->
                         AttributeMaybeUndefinedVisitor(tab, alw, blocks[b][i])]],
                 initial_undefined)

(***************************************************************************)
(* attrdefined.py: combining the results.                                  *)
(***************************************************************************)
IsDirty(s) == s # {}

\* Reads never disqualify an attribute
ReadIgnored(op, maybe_undefined, b, i) == FALSE

\* Lines 209-210: a read of an attribute that may be undefined
ReadMayBeUndefined(op, maybe_undefined, b, i) ==
    /\ op.kind = "GetAttr" /\ op.obj_self
    /\ op.attr \in maybe_undefined.before[b][i]

\* No write is taken to be uncertain
WriteNeverUncertain(op, maybe_defined, maybe_undefined, b, i) == FALSE

\* Lines 216-220: a write of an attribute that is sometimes undefined and
\* sometimes defined
WriteIsUncertain(op, maybe_defined, maybe_undefined, b, i) ==
    /\ op.kind = "SetAttr" /\ op.obj_self
    /\ op.attr \in maybe_undefined.before[b][i]
    /\ op.attr \in maybe_defined.before[b][i]

\* No exit handling at all
AtExitKeepsAll(attrs, maybe_defined, maybe_undefined, b, i) == attrs

\* AtExit without the maybe-undefined part
AtExitDefinedOnly(attrs, maybe_defined, maybe_undefined, b, i) ==
    attrs \cap maybe_defined.after[b][i]

\* Lines 227-229 and 235-237: what survives an "exit" at op i of block b
AtExit(attrs, maybe_defined, maybe_undefined, b, i) ==
    attrs \cap (maybe_defined.after[b][i] \ maybe_undefined.after[b][i])

\* The "exit" handling of one control op: intersect with the sets at the
\* first op of every target that is dirty on entry
RECURSIVE always_targets(_, _, _, _, _, _)
always_targets(targets, k, attrs, maybe_defined, maybe_undefined, dirty) ==
    IF k > Len(targets) THEN attrs
    ELSE LET t == targets[k]
         IN  always_targets(targets, k + 1,
                 IF IsDirty(dirty.before[t][1])
                 THEN AtExit(attrs, maybe_defined, maybe_undefined, t, 1)
                 ELSE attrs,
                 maybe_defined, maybe_undefined, dirty)

\* The loop body of find_always_defined_attributes, from op i of block b on
RECURSIVE find_always_from(_, _, _, _, _, _, _)
find_always_from(blocks, b, i, attrs, maybe_defined, maybe_undefined, dirty) ==
    IF b > Len(blocks) THEN attrs
    ELSE IF i > Len(blocks[b])
    THEN find_always_from(blocks, b + 1, 1, attrs, maybe_defined, maybe_undefined, dirty)
    ELSE
      LET op == blocks[b][i]
          a1 == IF ReadMayBeUndefined(op, maybe_undefined, b, i)
                THEN attrs \ {op.attr} ELSE attrs
          a2 == IF WriteIsUncertain(op, maybe_defined, maybe_undefined, b, i)
                THEN a1 \ {op.attr} ELSE a1
      IN  IF IsDirty(dirty.after[b][i])
          THEN \* break: the rest of the block is skipped
               find_always_from(blocks, b + 1, 1,
                   IF ~IsDirty(dirty.before[b][i])
                   THEN AtExit(a2, maybe_defined, maybe_undefined, b, i)
                   ELSE a2,
                   maybe_defined, maybe_undefined, dirty)
          ELSE find_always_from(blocks, b, i + 1,
                   IF IsControlOp(op)
                   THEN always_targets(op.targets, 1, a2, maybe_defined, maybe_undefined, dirty)
                   ELSE a2,
                   maybe_defined, maybe_undefined, dirty)

find_always_defined_attributes(blocks, all_attrs, maybe_defined, maybe_undefined, dirty) ==
    find_always_from(blocks, 1, 1, all_attrs, maybe_defined, maybe_undefined, dirty)

\* The set at the exit replaces what was collected so far
SometimesAtExitOverwrites(attrs, maybe_defined, b, i) == maybe_defined.after[b][i]

\* Lines 254 and 259: what an "exit" at op i of block b adds
SometimesAtExit(attrs, maybe_defined, b, i) == attrs \cup maybe_defined.after[b][i]

RECURSIVE sometimes_targets(_, _, _, _, _)
\* Only the first target of a control op is looked at
sometimes_first_target(targets, k, attrs, maybe_defined, dirty) ==
    IF k > Len(targets) \/ k > 1 THEN attrs
    ELSE IF IsDirty(dirty.before[targets[k]][1])
         THEN SometimesAtExit(attrs, maybe_defined, targets[k], 1)
         ELSE attrs

sometimes_targets(targets, k, attrs, maybe_defined, dirty) ==
    IF k > Len(targets) THEN attrs
    ELSE LET t == targets[k]
         IN  sometimes_targets(targets, k + 1,
                 IF IsDirty(dirty.before[t][1])
                 THEN SometimesAtExit(attrs, maybe_defined, t, 1)
                 ELSE attrs,
                 maybe_defined, dirty)

\* The loop body of find_sometimes_defined_attributes, from op i of block b on
RECURSIVE find_sometimes_from(_, _, _, _, _, _)
find_sometimes_from(blocks, b, i, attrs, maybe_defined, dirty) ==
    IF b > Len(blocks) THEN attrs
    ELSE IF i > Len(blocks[b])
    THEN find_sometimes_from(blocks, b + 1, 1, attrs, maybe_defined, dirty)
    ELSE
      LET op == blocks[b][i]
      IN  IF IsDirty(dirty.after[b][i])
          THEN find_sometimes_from(blocks, b + 1, 1,
                   IF ~IsDirty(dirty.before[b][i])
                   THEN SometimesAtExit(attrs, maybe_defined, b, i)
                   ELSE attrs,
                   maybe_defined, dirty)
          ELSE find_sometimes_from(blocks, b, i + 1,
                   IF IsControlOp(op)
                   THEN sometimes_targets(op.targets, 1, attrs, maybe_defined, dirty)
                   ELSE attrs,
                   maybe_defined, dirty)

find_sometimes_defined_attributes(blocks, maybe_defined, dirty) ==
    find_sometimes_from(blocks, 1, 1, {}, maybe_defined, dirty)

\* Every receiver write before an escape is tagged
mark_every_clean_write(m, blocks, maybe_defined, dirty) ==
    {<<m, b, i>> : <<b, i>> \in
        {p \in UNION {{<<b, i>> : i \in DOMAIN blocks[b]} : b \in DOMAIN blocks} :
            LET op == blocks[p[1]][p[2]]
            IN  /\ op.kind = "SetAttr" /\ op.obj_self
                /\ ~IsDirty(dirty.after[p[1]][p[2]])}}

\* A first write is tagged even after the receiver has escaped
mark_ignoring_escape(m, blocks, maybe_defined, dirty) ==
    {<<m, b, i>> : <<b, i>> \in
        {p \in UNION {{<<b, i>> : i \in DOMAIN blocks[b]} : b \in DOMAIN blocks} :
            LET op == blocks[p[1]][p[2]]
            IN  /\ op.kind = "SetAttr" /\ op.obj_self
                /\ op.attr \notin maybe_defined.before[p[1]][p[2]]}}

\* mark_attr_initialization_ops: the ops of function m that get is_init
mark_attr_initialization_ops(m, blocks, maybe_defined, dirty) ==
    {<<m, b, i>> : <<b, i>> \in
        {p \in UNION {{<<b, i>> : i \in DOMAIN blocks[b]} : b \in DOMAIN blocks} :
            LET op == blocks[p[1]][p[2]]
            IN  /\ op.kind = "SetAttr" /\ op.obj_self
                /\ op.attr \notin maybe_defined.before[p[1]][p[2]]
                /\ ~IsDirty(dirty.after[p[1]][p[2]])}}

(***************************************************************************)
(* First pass: analyze_always_defined_attrs_in_class.  st carries the      *)
(* mutable state the recursion threads through: seen and the result fields.*)
(***************************************************************************)
NoFlow == [ran |-> FALSE, m |-> None, all_attrs |-> {},
           dirty |-> [before |-> <<>>, after |-> <<>>],
           maybe_defined |-> [before |-> <<>>, after |-> <<>>],
           maybe_undefined |-> [before |-> <<>>, after |-> <<>>],
           always_defined |-> {},
           init_attrs |-> <<>>, maybe_init_attrs |-> <<>>]

\* all_attrs: the attributes of every class of the MRO
AllAttrs(tab, cl) == UNION {Range(tab[b].attributes) : b \in Range(tab[cl].mro)}

\* Every op counts, a return included
AnyDirtyCountsReturns(blocks, dirty) ==
    \E b \in DOMAIN blocks : \E i \in DOMAIN blocks[b] :
        IsDirty(dirty.after[b][i])

\* Lines 181-187: any_dirty; a dirty return does not count
AnyDirty(blocks, dirty) ==
    \E b \in DOMAIN blocks : \E i \in DOMAIN blocks[b] :
        IsDirty(dirty.after[b][i]) /\ blocks[b][i].kind # "Return"

\* Lines 167-188, given the three analysis results
ResolveWith(tab, st, cl, m, blocks, all_attrs, dirty, maybe_defined, maybe_undefined) ==
    LET found == find_always_defined_attributes(
            blocks, all_attrs, maybe_defined, maybe_undefined, dirty)
        always_defined == {a \in found : ~is_deletable(tab, cl, a)}
        sometimes_defined == find_sometimes_defined_attributes(blocks, maybe_defined, dirty)
        any_dirty == AnyDirty(blocks, dirty)
    IN  [st EXCEPT
           !.always[cl] = always_defined,
           !.sometimes[cl] = sometimes_defined,
           !.log = @ \o <<Event("resolve", "write", cl, "always", always_defined),
                          Event("resolve", "write", cl, "sometimes", sometimes_defined),
                          Event("resolve", "write", cl, "init_self_leak", any_dirty)>>,
           !.is_init = @ \cup mark_attr_initialization_ops(m, blocks, maybe_defined, dirty),
           !.init_self_leak[cl] = any_dirty,
           !.flow[cl] = [ran |-> TRUE, m |-> m, all_attrs |-> all_attrs,
                         dirty |-> dirty,
                         maybe_defined |-> maybe_defined,
                         maybe_undefined |-> maybe_undefined,
                         always_defined |-> always_defined,
                         init_attrs |-> [c \in DOMAIN tab |->
                             attributes_initialized_by_init_call(tab, st.always, c)],
                         maybe_init_attrs |-> [c \in DOMAIN tab |->
                             attributes_maybe_initialized_by_init_call(
                                 tab, st.always, st.sometimes, c)]]]

\* Only the always-defined set is taken from the defaults
NoInitResultAlwaysOnly(tab, st, cl) ==
    [st EXCEPT !.always[cl] = tab[cl].attrs_with_defaults,
               !.log = Append(@, Event("resolve", "write", cl, "always",
                                       tab[cl].attrs_with_defaults))]

\* Lines 151-152: the class has no __init__
NoInitResult(tab, st, cl) ==
    [st EXCEPT !.always[cl] = tab[cl].attrs_with_defaults,
               !.sometimes[cl] = tab[cl].attrs_with_defaults,
               !.log = @ \o <<Event("resolve", "write", cl, "always",
                                    tab[cl].attrs_with_defaults),
                              Event("resolve", "write", cl, "sometimes",
                                    tab[cl].attrs_with_defaults)>>]

\* Lines 149-188 for a class that was not given up on, bases already analyzed.
\* (Each analysis result is bound once, as the source's local variables are.)
ResolveBody(tab, st, cl) ==
    LET m == get_method(tab, cl)
    IN  IF m = None
        THEN NoInitResult(tab, st, cl)
        ELSE
          LET blocks == tab[m].init_blocks
              all_attrs == AllAttrs(tab, cl)
          IN  Value({ResolveWith(tab, st, cl, m, blocks, all_attrs,
                                 dirty, maybe_defined, maybe_undefined) :
                dirty \in {analyze_self_leaks(blocks, st.init_self_leak)},
                maybe_defined \in {analyze_maybe_defined_attrs_in_init(
                    tab, st.always, st.sometimes, blocks, tab[cl].attrs_with_defaults)},
                maybe_undefined \in {analyze_maybe_undefined_attrs_in_init(
                    tab, st.always, blocks, all_attrs \ tab[cl].attrs_with_defaults)}})

RECURSIVE analyze_always_defined_attrs_in_class(_, _, _)
RECURSIVE analyze_bases(_, _, _, _)
\* for base in cl.mro[1:]: analyze_always_defined_attrs_in_class(base, seen)
analyze_bases(tab, st, mro, k) ==
    IF k > Len(mro) THEN st
    ELSE analyze_bases(tab, analyze_always_defined_attrs_in_class(tab, st, mro[k]), mro, k + 1)

\* The classes of the MRO are not analysed first
analyze_without_bases(tab, st, cl) ==
    IF cl \in st.seen THEN st
    ELSE LET st1 == [st EXCEPT !.seen = @ \cup {cl},
                               !.log = Append(@, Event("resolve", "visit", cl, None, {}))]
         IN  IF GivesUp(tab, cl) THEN st1
             ELSE ResolveBody(tab,
                      [st1 EXCEPT !.log = Append(@, Event("resolve", "body", cl, None, {}))],
                      cl)

\* A class already seen is analysed again
analyze_again_when_seen(tab, st, cl) ==
    LET st1 == [st EXCEPT !.seen = @ \cup {cl},
                          !.log = Append(@, Event("resolve", "visit", cl, None, {}))]
    IN  IF GivesUp(tab, cl) THEN st1
        ELSE LET st2 == analyze_bases(tab, st1, tab[cl].mro, 2)
             IN  ResolveBody(tab,
                     [st2 EXCEPT !.log = Append(@, Event("resolve", "body", cl, None, {}))],
                     cl)

analyze_always_defined_attrs_in_class(tab, st, cl) ==
    IF cl \in st.seen THEN st
    ELSE LET st1 == [st EXCEPT !.seen = @ \cup {cl},
                               !.log = Append(@, Event("resolve", "visit", cl, None, {}))]
         IN  IF GivesUp(tab, cl) THEN st1
             ELSE LET st2 == analyze_bases(tab, st1, tab[cl].mro, 2)
                  IN  ResolveBody(tab,
                          [st2 EXCEPT !.log = Append(@, Event("resolve", "body", cl, None, {}))],
                          cl)

(***************************************************************************)
(* Second pass: update_always_defined_attrs_using_subclasses.  st carries  *)
(* seen and the always sets.                                               *)
(***************************************************************************)
\* The orders the elements of S can be listed in: the order of the input
\* list class_irs, and the orders in which a Python set can be iterated
Orders(S) ==
    {s \in [1..Cardinality(S) -> S] : \A i, j \in DOMAIN s : i # j => s[i] # s[j]}

RECURSIVE update_always_defined_attrs_using_subclasses(_, _, _)
RECURSIVE update_children(_, _, _, _, _, _)
RECURSIVE update_children_unvisited(_, _, _, _, _, _)
RECURSIVE update_attrs(_, _, _, _, _, _)
\* The children are tested without being updated first
update_children_unvisited(tab, r, cl, attr, children, k) ==
    IF k > Len(children) THEN r
    ELSE update_children_unvisited(tab,
             [st |-> r.st,
              removed |-> IF attr \notin r.st.always[children[k]]
                          THEN r.removed \cup {attr} ELSE r.removed],
             cl, attr, children, k + 1)

\* for child in cl.children: recurse, then test attr; r = [st, removed]
update_children(tab, r, cl, attr, children, k) ==
    IF k > Len(children) THEN r
    ELSE LET st2 == update_always_defined_attrs_using_subclasses(tab, r.st, children[k])
         IN  update_children(tab,
                 [st |-> st2,
                  removed |-> IF attr \notin st2.always[children[k]]
                              THEN r.removed \cup {attr} ELSE r.removed],
                 cl, attr, children, k + 1)

\* for attr in cl._always_initialized_attrs, attrs being the order in which
\* the set is iterated (the outcome is the same for every order, so that
\* the callers take the one value of the set of outcomes)
update_attrs(tab, r, cl, attrs, j, children) ==
    IF j > Len(attrs) THEN r
    ELSE update_attrs(tab, update_children(tab, r, cl, attrs[j], children, 1),
                      cl, attrs, j + 1, children)

\* A class without children loses all its attributes
update_clears_leaves(tab, st, cl) ==
    IF cl \in st.seen THEN st
    ELSE IF tab[cl].children_none THEN st
    ELSE LET r == Value({update_attrs(tab, [st |-> st, removed |-> {}], cl,
                                      attrs, 1, tab[cl].children) :
                            attrs \in Orders(st.always[cl])})
             kept == IF tab[cl].children = <<>> THEN {}
                     ELSE r.st.always[cl] \ r.removed
         IN  [r.st EXCEPT !.always[cl] = kept,
                          !.seen = @ \cup {cl},
                          !.log = @ \o <<Event("propagate", "write", cl, "always", kept),
                                         Event("propagate", "visit", cl, None, {})>>]

\* The attributes found missing in a child are not taken out
update_keeps_removed(tab, st, cl) ==
    IF cl \in st.seen THEN st
    ELSE IF tab[cl].children_none THEN st
    ELSE LET r == Value({update_attrs(tab, [st |-> st, removed |-> {}], cl,
                                      attrs, 1, tab[cl].children) :
                            attrs \in Orders(st.always[cl])})
         IN  [r.st EXCEPT !.seen = @ \cup {cl},
                          !.log = @ \o <<Event("propagate", "write", cl, "always",
                                               r.st.always[cl]),
                                         Event("propagate", "visit", cl, None, {})>>]

update_always_defined_attrs_using_subclasses(tab, st, cl) ==
    IF cl \in st.seen THEN st
    ELSE IF tab[cl].children_none THEN st
    ELSE LET r == Value({update_attrs(tab, [st |-> st, removed |-> {}], cl,
                                      attrs, 1, tab[cl].children) :
                            attrs \in Orders(st.always[cl])})
         IN  [r.st EXCEPT !.always[cl] = @ \ r.removed,
                          !.seen = @ \cup {cl},
                          !.log = @ \o <<Event("propagate", "write", cl, "always",
                                               r.st.always[cl] \ r.removed),
                                         Event("propagate", "visit", cl, None, {})>>]

(***************************************************************************)
(* Final pass: detect_undefined_bitmap.  st carries seen and bitmap_attrs. *)
(***************************************************************************)
\* Append the names of attrs (in order) that pass the test of lines 429/435
RECURSIVE append_overlapping(_, _, _, _, _, _, _)
append_overlapping(tab, alw, cl, owner, k, bm, skip_present) ==
    LET attrs == tab[owner].attributes
    IN  IF k > Len(attrs) THEN bm
        ELSE LET n == attrs[k]
                 add == /\ n \in tab[owner].error_overlap
                        /\ ~is_always_defined(tab, alw, cl, n)
                        /\ (skip_present => n \notin Range(bm))
             IN  append_overlapping(tab, alw, cl, owner, k + 1,
                                    IF add THEN Append(bm, n) ELSE bm, skip_present)

\* for base in cl.mro[1:]: if base.is_trait: ...
RECURSIVE append_trait_attrs(_, _, _, _, _)
append_trait_attrs(tab, alw, cl, k, bm) ==
    LET mro == tab[cl].mro
    IN  IF k > Len(mro) THEN bm
        ELSE append_trait_attrs(tab, alw, cl, k + 1,
                 IF tab[mro[k]].is_trait
                 THEN append_overlapping(tab, alw, cl, mro[k], 1, bm, TRUE)
                 ELSE bm)

\* The history of the statements that update cl.bitmap_attrs: the extend of
\* line 427 when it runs (the list is then bm1), and one append of line 430
\* or 436 for every name added after it, up to the final list bm3
bitmap_updates(cl, extended, bm1, bm3) ==
    (IF extended THEN <<Event("bitmap", "write", cl, "bitmap_attrs", bm1)>> ELSE <<>>)
    \o [n \in 1..(Len(bm3) - Len(bm1)) |->
           Event("bitmap", "write", cl, "bitmap_attrs", SubSeq(bm3, 1, Len(bm1) + n))]

RECURSIVE detect_undefined_bitmap(_, _, _, _)
RECURSIVE detect_bases(_, _, _, _, _)
\* for base in cl.base_mro[1:]: detect_undefined_bitmap(cl, seen)
\* (the recursive call is made on cl itself, as in the source)
detect_bases(tab, alw, st, cl, k) ==
    IF k > Len(tab[cl].base_mro) THEN st
    ELSE detect_bases(tab, alw, detect_undefined_bitmap(tab, alw, st, cl), cl, k + 1)

detect_undefined_bitmap(tab, alw, st, cl) ==
    IF tab[cl].is_trait THEN st
    ELSE IF cl \in st.seen THEN st
    ELSE LET st1 == detect_bases(tab, alw,
                        [st EXCEPT !.seen = @ \cup {cl},
                                   !.log = Append(@, Event("bitmap", "visit", cl, None, {}))],
                        cl, 2)
             bm0 == st1.bitmap_attrs[cl]
             bm1 == IF Len(tab[cl].base_mro) > 1
                    THEN bm0 \o st1.bitmap_attrs[tab[cl].base_mro[2]]
                    ELSE bm0
             bm2 == append_overlapping(tab, alw, cl, cl, 1, bm1, FALSE)
             bm3 == append_trait_attrs(tab, alw, cl, 2, bm2)
         IN  [st1 EXCEPT !.bitmap_attrs[cl] = bm3,
                         !.log = @ \o bitmap_updates(cl, Len(tab[cl].base_mro) > 1, bm1, bm3)]

(***************************************************************************)
(* Inputs: class descriptors and constructor CFGs.                         *)
(***************************************************************************)
MaxBlocks == 3      \* blocks of a generated constructor
MaxBodyOps == 2     \* non-control ops of a generated constructor, in total

ClassIR(mro, base_mro, children, attributes, overlap, defaults, deletable, blocks) ==
    [mro |-> mro, base_mro |-> base_mro, children |-> children,
     attributes |-> attributes, error_overlap |-> overlap,
     attrs_with_defaults |-> defaults, deletable |-> deletable,
     init_blocks |-> blocks,
     is_trait |-> FALSE, inherits_python |-> FALSE,
     allow_interpreted_subclasses |-> FALSE, builtin_base |-> FALSE,
     children_none |-> FALSE, serializable |-> FALSE]

\* Control ops of a constructor with n blocks.  The entry block is never a
\* jump target: the IR builder opens a function with a fresh block.
Terminators(n) ==
    {Return, Unreachable}
    \cup {Goto(t) : t \in 2..n}
    \cup {Branch(t[1], t[2]) : t \in {u \in (2..n) \X (2..n) : u[1] < u[2]}}

\* Non-control ops of the generated constructors: of a class on its own, and
\* of a class that can call its base class constructor
OwnOps == {SetAttr("x"), GetAttr("x"), CallOther}
ChainedOps == {CallInit("B"), CallOther, SetAttr("q")}

BodySeqs(ops) == UNION {[1..k -> ops] : k \in 0..MaxBodyOps}

RECURSIVE SumLen(_, _)
SumLen(f, n) == IF n = 0 THEN 0 ELSE Len(f[n]) + SumLen(f, n - 1)

Bodies(ops, n) == {f \in [1..n -> BodySeqs(ops)] : SumLen(f, n) <= MaxBodyOps}

\* The constructor with the given op sequences and control ops
MakeBlocks(body, term) == [b \in DOMAIN body |-> body[b] \o <<term[b]>>]

HasInitCall(blocks) ==
    \E b \in DOMAIN blocks : \E i \in DOMAIN blocks[b] : IsInitCall(blocks[b][i])

\* Constructors of the base class B of the generated family: p is written on
\* every path, q on one path only; the second one passes self to other code
BaseInitPlain == <<
    <<SetAttr("p"), Branch(2, 3)>>,
    <<SetAttr("q"), Goto(3)>>,
    <<Return>> >>

BaseInitLeaky == <<
    <<SetAttr("p"), CallOther, Branch(2, 3)>>,
    <<SetAttr("q"), Goto(3)>>,
    <<Return>> >>

\* A class D on its own
OwnProgram(blocks) ==
    [ir |-> [c \in {"D"} |-> ClassIR(<<"D">>, <<"D">>, <<>>, <<"x">>, {}, {}, {}, blocks)],
     class_irs |-> <<"D">>]

\* A point <<b, i>> is the program point just before op i of block b
OpAt(blocks, p) == blocks[p[1]][p[2]]

Points(blocks) == UNION {{<<b, i>> : i \in DOMAIN blocks[b]} : b \in DOMAIN blocks}

NextPoints(blocks, p) ==
    IF p[2] < Len(blocks[p[1]]) THEN {<<p[1], p[2] + 1>>}
    ELSE {<<t, 1>> : t \in Succ(blocks, p[1])}

\* Points reachable from the points of R along paths that do not continue
\* through a point of stops
RECURSIVE ReachAvoiding(_, _, _)
ReachAvoiding(blocks, R, stops) ==
    LET more == R \cup UNION {NextPoints(blocks, p) : p \in R \ stops}
    IN  IF more = R THEN R ELSE ReachAvoiding(blocks, more, stops)

\* Points reachable from the entry
Reachable(blocks) == ReachAvoiding(blocks, {<<1, 1>>}, {})

\* Every block of the constructor can be reached from its entry
AllBlocksReachable(blocks) ==
    \A b \in DOMAIN blocks : <<b, 1>> \in Reachable(blocks)

\* A class on its own whose attributes x and y both have a class-body
\* default, y being deletable
DefaultProgram(blocks) ==
    [ir |-> [c \in {"D"} |->
                ClassIR(<<"D">>, <<"D">>, <<>>, <<"x", "y">>, {}, {"x", "y"}, {"y"}, blocks)],
     class_irs |-> <<"D">>]

\* B <- D
ChainedProgram(blocks) ==
    [ir |-> [c \in {"B", "D"} |->
                IF c = "B"
                THEN ClassIR(<<"B">>, <<"B">>, <<"D">>, <<"p", "q">>, {}, {}, {}, BaseInitPlain)
                ELSE ClassIR(<<"D", "B">>, <<"D", "B">>, <<>>, <<"x">>, {}, {}, {}, blocks)],
     class_irs |-> <<"B", "D">>]

\* Hand-written constructors
NoInit == <<>>
InitBoth(a, b) == << <<SetAttr(a), SetAttr(b), Return>> >>
InitBothThenLeak(a, b) == << <<SetAttr(a), SetAttr(b), CallOther, Return>> >>
InitOwn(a) == << <<SetAttr(a), Return>> >>
InitChained(base, a) == << <<CallInit(base), SetAttr(a), Return>> >>
InitCond(base, a) == <<
    <<Branch(2, 3)>>,
    <<CallInit(base), Goto(3)>>,
    <<SetAttr(a), Return>> >>
InitRaises == << <<Unreachable>> >>
\* "base.__init__(other); self.a = ...; return"
InitOfOther(base, a) == << <<CallInitOther(base), SetAttr(a), Return>> >>
\* self.x = 0; if func(): self.y = 1 else: self.y = 2; self.z = 3
InitExample1 == <<
    <<SetAttr("x"), Branch(2, 3)>>,
    <<SetAttr("y"), Goto(4)>>,
    <<SetAttr("y"), SetAttr("z"), Goto(4)>>,
    <<Return>> >>
\* self.x = self.foo()
InitExample2 == << <<CallOther, SetAttr("x"), Return>> >>

\* The ways the classes of B <- D can be outside the analysis, as <<flag of B,
\* flag of D>>: a subclass inherits a Python or builtin base, a class that
\* allows interpreted subclasses needs a base class that does, and children
\* are unknown for all classes or for none
FlagPairs ==
    {<<"none", "none">>,
     <<"inherits_python", "inherits_python">>, <<"none", "inherits_python">>,
     <<"builtin_base", "builtin_base">>, <<"none", "builtin_base">>,
     <<"allow_interpreted_subclasses", "none">>,
     <<"allow_interpreted_subclasses", "allow_interpreted_subclasses">>,
     <<"children_none", "children_none">>,
     <<"serializable", "none">>, <<"none", "serializable">>}

WithFlag(c, f) ==
    [c EXCEPT !.is_trait = (f = "is_trait"),
              !.inherits_python = (f = "inherits_python"),
              !.allow_interpreted_subclasses = (f = "allow_interpreted_subclasses"),
              !.builtin_base = (f = "builtin_base"),
              !.children_none = (f = "children_none"),
              !.serializable = (f = "serializable")]

\* Variants of the root class B (attributes p, q): constructor, defaults, deletable
BaseVariants ==
    {[blocks |-> InitBoth("p", "q"), defaults |-> {}, deletable |-> {}],
     [blocks |-> InitBoth("p", "q"), defaults |-> {}, deletable |-> {"q"}],
     [blocks |-> BaseInitPlain, defaults |-> {}, deletable |-> {}],
     [blocks |-> BaseInitLeaky, defaults |-> {}, deletable |-> {}],
     [blocks |-> InitBothThenLeak("p", "q"), defaults |-> {}, deletable |-> {}],
     [blocks |-> NoInit, defaults |-> {"p"}, deletable |-> {}],
     [blocks |-> NoInit, defaults |-> {"p"}, deletable |-> {"p"}]}

\* The variants of B used below the larger hierarchies
RootVariants ==
    {[blocks |-> InitBoth("p", "q"), defaults |-> {}, deletable |-> {}],
     [blocks |-> BaseInitPlain, defaults |-> {}, deletable |-> {}],
     [blocks |-> InitBothThenLeak("p", "q"), defaults |-> {}, deletable |-> {}],
     [blocks |-> NoInit, defaults |-> {"p"}, deletable |-> {}]}

\* Variants of a class with one own attribute a and parent class base
DerivedVariants(base, a) ==
    {[blocks |-> NoInit, defaults |-> {}, deletable |-> {}],
     [blocks |-> NoInit, defaults |-> {a}, deletable |-> {}],
     [blocks |-> InitChained(base, a), defaults |-> {}, deletable |-> {}],
     [blocks |-> InitOwn(a), defaults |-> {}, deletable |-> {}],
     [blocks |-> InitCond(base, a), defaults |-> {}, deletable |-> {}],
     [blocks |-> InitRaises, defaults |-> {}, deletable |-> {}]}

\* B <- D, hand-written constructors
Chain2Program(bv, dv, fl, order) ==
    [ir |-> [c \in {"B", "D"} |->
                IF c = "B"
                THEN WithFlag(ClassIR(<<"B">>, <<"B">>, <<"D">>, <<"p", "q">>, {"p", "q"},
                                      bv.defaults, bv.deletable, bv.blocks), fl[1])
                ELSE WithFlag(ClassIR(<<"D", "B">>, <<"D", "B">>, <<>>, <<"r">>, {"r"},
                                      dv.defaults \cup bv.defaults, dv.deletable, dv.blocks), fl[2])],
     class_irs |-> order]

\* The ways the classes of B <- D <- E can be outside the analysis
FlagTriples ==
    {<<"none", "none", "none">>,
     <<"none", "none", "serializable">>,
     <<"children_none", "children_none", "children_none">>}

\* B <- D <- E
Chain3Program(bv, dv, ev, fl, order) ==
    [ir |-> [c \in {"B", "D", "E"} |->
                CASE c = "B" ->
                       WithFlag(ClassIR(<<"B">>, <<"B">>, <<"D">>, <<"p", "q">>, {"p", "q"},
                                        bv.defaults, bv.deletable, bv.blocks), fl[1])
                  [] c = "D" ->
                       WithFlag(ClassIR(<<"D", "B">>, <<"D", "B">>, <<"E">>, <<"r">>, {"r"},
                                        dv.defaults \cup bv.defaults, dv.deletable, dv.blocks),
                                fl[2])
                  [] c = "E" ->
                       WithFlag(ClassIR(<<"E", "D", "B">>, <<"E", "D", "B">>, <<>>, <<"s">>, {"s"},
                                        ev.defaults \cup dv.defaults \cup bv.defaults,
                                        ev.deletable, ev.blocks), fl[3])],
     class_irs |-> order]

\* B <- D and B <- E
ForkProgram(bv, dv, ev, order) ==
    [ir |-> [c \in {"B", "D", "E"} |->
                CASE c = "B" ->
                       ClassIR(<<"B">>, <<"B">>, <<"D", "E">>, <<"p", "q">>, {"p", "q"},
                               bv.defaults, bv.deletable, bv.blocks)
                  [] c = "D" ->
                       ClassIR(<<"D", "B">>, <<"D", "B">>, <<>>, <<"r">>, {"r"},
                               dv.defaults \cup bv.defaults, dv.deletable, dv.blocks)
                  [] c = "E" ->
                       ClassIR(<<"E", "B">>, <<"E", "B">>, <<>>, <<"s">>, {"s"},
                               ev.defaults \cup bv.defaults, ev.deletable, ev.blocks)],
     class_irs |-> order]

\* __init__ of a class that also writes the attribute of a trait
InitTrait(base, a, t) == << <<CallInit(base), SetAttr(t), SetAttr(a), Return>> >>

\* A diamond: trait T, class B(T), trait U(T), class D(B, U)
DiamondProgram(bv, dv, order) ==
    [ir |-> [c \in {"T", "U", "B", "D"} |->
                CASE c = "T" ->
                       WithFlag(ClassIR(<<"T">>, <<>>, <<"B", "U">>, <<"t">>, {"t"},
                                        {}, {}, NoInit), "is_trait")
                  [] c = "U" ->
                       WithFlag(ClassIR(<<"U", "T">>, <<>>, <<"D">>, <<"u">>, {"u"},
                                        {}, {}, NoInit), "is_trait")
                  [] c = "B" ->
                       ClassIR(<<"B", "T">>, <<"B">>, <<"D">>, <<"p", "q">>, {"p", "q"},
                               bv.defaults, bv.deletable, bv.blocks)
                  [] c = "D" ->
                       ClassIR(<<"D", "B", "U", "T">>, <<"D", "B">>, <<>>, <<"r">>, {"r"},
                               dv.defaults \cup bv.defaults, dv.deletable, dv.blocks)],
     class_irs |-> order]

\* B <- D where D has no __init__ of its own and declares attribute p of B
\* again in its class body, with or without a default value
RedeclareProgram(bv, dflt, order) ==
    [ir |-> [c \in {"B", "D"} |->
                IF c = "B"
                THEN ClassIR(<<"B">>, <<"B">>, <<"D">>, <<"p", "q">>, {"p", "q"},
                             bv.defaults, bv.deletable, bv.blocks)
                ELSE ClassIR(<<"D", "B">>, <<"D", "B">>, <<>>, <<"p">>, {"p"},
                             dflt \cup bv.defaults, {}, NoInit)],
     class_irs |-> order]

\* The class of the module docstring's first example
Example1Program ==
    [ir |-> [c \in {"D"} |->
                ClassIR(<<"D">>, <<"D">>, <<>>, <<"x", "y", "z">>, {}, {}, {}, InitExample1)],
     class_irs |-> <<"D">>]

(***************************************************************************)
(* The pass as a state machine.                                            *)
(***************************************************************************)
\* The state when analyze_always_defined_attrs is entered with program prog
Start(prog) ==
    /\ ir = prog.ir
    /\ class_irs = prog.class_irs
    /\ pc = "resolve"
    /\ idx = 1
    /\ seen = {}
    /\ always = [c \in DOMAIN prog.ir |-> {}]
    /\ sometimes = [c \in DOMAIN prog.ir |-> {}]
    /\ init_self_leak = [c \in DOMAIN prog.ir |-> FALSE]
    /\ bitmap_attrs = [c \in DOMAIN prog.ir |-> <<>>]
    /\ is_init = {}
    /\ flow = [c \in DOMAIN prog.ir |-> NoFlow]
    /\ log = <<>>
    /\ stack = <<>>

Init ==
    \/ \E n \in 1..MaxBlocks :
          \E body \in Bodies(OwnOps, n), term \in [1..n -> Terminators(n)] :
              Start(OwnProgram(MakeBlocks(body, term)))
    \/ \E n \in 1..MaxBlocks :
          \E body \in Bodies(ChainedOps, n), term \in [1..n -> Terminators(n)] :
              /\ HasInitCall(body)
              /\ Start(ChainedProgram(MakeBlocks(body, term)))
    \/ \E bv \in BaseVariants, dv \in DerivedVariants("B", "r"),
          fl \in FlagPairs,
          order \in Orders({"B", "D"}) :
              Start(Chain2Program(bv, dv, fl, order))
    \/ \E bv \in RootVariants, dv \in DerivedVariants("B", "r"),
          ev \in DerivedVariants("D", "s")
                 \cup {[blocks |-> InitChained("B", "s"), defaults |-> {}, deletable |-> {}]},
          fl \in FlagTriples,
          order \in Orders({"B", "D", "E"}) :
              Start(Chain3Program(bv, dv, ev, fl, order))
    \/ \E bv \in RootVariants, dv \in DerivedVariants("B", "r"),
          ev \in DerivedVariants("B", "s"), order \in Orders({"B", "D", "E"}) :
              Start(ForkProgram(bv, dv, ev, order))
    \/ \E bv \in RootVariants,
          dv \in DerivedVariants("B", "r")
                 \cup {[blocks |-> InitTrait("B", "r", "t"), defaults |-> {}, deletable |-> {}]},
          order \in Orders({"T", "U", "B", "D"}) :
              Start(DiamondProgram(bv, dv, order))
    \/ \E bv \in BaseVariants, dflt \in {{}, {"p"}}, order \in Orders({"B", "D"}) :
              Start(RedeclareProgram(bv, dflt, order))
    \/ \E bv \in BaseVariants, order \in Orders({"B", "D"}) :
              Start(Chain2Program(bv,
                        [blocks |-> InitOfOther("B", "r"), defaults |-> {}, deletable |-> {}],
                        <<"none", "none">>, order))
    \/ \E n \in 1..MaxBlocks :
          \E body \in Bodies(OwnOps, n), term \in [1..n -> Terminators(n)] :
              /\ n < MaxBlocks \/ AllBlocksReachable(MakeBlocks(body, term))
              /\ Start(DefaultProgram(MakeBlocks(body, term)))
    \/ Start(Example1Program)
    \/ Start(OwnProgram(InitExample2))

\* One iteration of "for cl in class_irs: analyze_always_defined_attrs_in_class"
Resolve ==
    /\ pc = "resolve" /\ idx <= Len(class_irs)
    /\ \E st \in {analyze_always_defined_attrs_in_class(ir,
                    [seen |-> seen, always |-> always, sometimes |-> sometimes,
                     init_self_leak |-> init_self_leak, is_init |-> is_init,
                     flow |-> flow, log |-> log],
                    class_irs[idx])} :
           /\ seen' = st.seen
           /\ always' = st.always
           /\ sometimes' = st.sometimes
           /\ init_self_leak' = st.init_self_leak
           /\ is_init' = st.is_init
           /\ flow' = st.flow
           /\ log' = st.log
    /\ idx' = idx + 1
    /\ UNCHANGED <<stack, ir, class_irs, pc, bitmap_attrs>>

\* "seen = set()" before the second loop
StartPropagate ==
    /\ pc = "resolve" /\ idx > Len(class_irs)
    /\ pc' = "propagate" /\ idx' = 1 /\ seen' = {}
    /\ UNCHANGED <<stack, ir, class_irs, always, sometimes, init_self_leak, bitmap_attrs,
                   is_init, flow, log>>

\* One iteration of the second loop
Propagate ==
    /\ pc = "propagate" /\ idx <= Len(class_irs)
    /\ \E st \in {update_always_defined_attrs_using_subclasses(ir,
                    [seen |-> seen, always |-> always, log |-> log],
                    class_irs[idx])} :
           /\ seen' = st.seen
           /\ always' = st.always
           /\ log' = st.log
    /\ idx' = idx + 1
    /\ UNCHANGED <<stack, ir, class_irs, pc, sometimes, init_self_leak, bitmap_attrs,
                   is_init, flow>>

\* "seen = set()" before the final loop
StartBitmap ==
    /\ pc = "propagate" /\ idx > Len(class_irs)
    /\ pc' = "bitmap" /\ idx' = 1 /\ seen' = {}
    /\ UNCHANGED <<stack, ir, class_irs, always, sometimes, init_self_leak, bitmap_attrs,
                   is_init, flow, log>>

\* One iteration of the final loop
Bitmap ==
    /\ pc = "bitmap" /\ idx <= Len(class_irs)
    /\ \E st \in {detect_undefined_bitmap(ir, always,
                    [seen |-> seen, bitmap_attrs |-> bitmap_attrs, log |-> log],
                    class_irs[idx])} :
           /\ seen' = st.seen
           /\ bitmap_attrs' = st.bitmap_attrs
           /\ log' = st.log
    /\ idx' = idx + 1
    /\ UNCHANGED <<stack, ir, class_irs, pc, always, sometimes, init_self_leak, is_init, flow>>

\* analyze_always_defined_attrs returns
Finish ==
    /\ pc = "bitmap" /\ idx > Len(class_irs)
    /\ pc' = "done"
    /\ UNCHANGED <<stack, ir, class_irs, idx, seen, always, sometimes, init_self_leak,
                   bitmap_attrs, is_init, flow, log>>

Next == Resolve \/ StartPropagate \/ Propagate \/ StartBitmap \/ Bitmap \/ Finish

Spec == Init /\ [][Next]_vars

(***************************************************************************)
(* Definedness along control-flow paths, used to state the properties.     *)
(* A point <<b, i>> is the program point just before op i of block b.      *)
(***************************************************************************)
\* op defines attribute a: a receiver write, or an __init__ call of a class
\* that guarantees a (init_attrs: class -> attributes its __init__ guarantees)
Defines(op, a, init_attrs) ==
    \/ op.kind = "SetAttr" /\ op.obj_self /\ op.attr = a
    \/ IsInitCall(op) /\ a \in init_attrs[op.init_of]

\* Points that some path from the entry reaches with a still undefined
UndefinedBefore(blocks, a, defaults, init_attrs) ==
    IF a \in defaults THEN {}
    ELSE ReachAvoiding(blocks, {<<1, 1>>},
             {p \in Points(blocks) : Defines(OpAt(blocks, p), a, init_attrs)})

\* Points after which a is still undefined on some path from the entry
UndefinedAfter(blocks, a, defaults, init_attrs) ==
    {p \in UndefinedBefore(blocks, a, defaults, init_attrs) :
        ~Defines(OpAt(blocks, p), a, init_attrs)}

\* The classes whose constructor the resolver has analysed
Analysed == {c \in DOMAIN ir : flow[c].ran}

InitBlocks(c) == ir[flow[c].m].init_blocks

(***************************************************************************)
(* C1.  Soundness of the resolver's always-defined set: for an analysed    *)
(* class with a constructor, every attribute of always_initialized_attrs   *)
(* is defined on every path from the entry to a return op (it has a        *)
(* default, or a receiver write or an __init__ call guaranteeing it lies   *)
(* on the path).                                                           *)
(***************************************************************************)
AlwaysDefinedIsDefinedAtReturn ==
    pc = "resolve" =>
        \A c \in Analysed : \A a \in always[c] :
            \A p \in UndefinedBefore(InitBlocks(c), a, ir[c].attrs_with_defaults,
                                     flow[c].init_attrs) :
                OpAt(InitBlocks(c), p).kind # "Return"

\* C1 witness: an attribute without default is always defined in a branching
\* constructor with a reachable return
AlwaysDefinedInBranchingInit ==
    /\ pc = "resolve"
    /\ \E c \in Analysed :
          /\ always[c] \ ir[c].attrs_with_defaults # {}
          /\ \E p \in Reachable(InitBlocks(c)) : OpAt(InitBlocks(c), p).kind = "Return"
          /\ \E p \in Reachable(InitBlocks(c)) : OpAt(InitBlocks(c), p).kind = "Branch"

(***************************************************************************)
(* C2.  No read before definition: if the constructor of an analysed class *)
(* reads attribute a on the receiver at an op where a is in                *)
(* maybe_undefined.before, then a is not in always_initialized_attrs; this *)
(* covers reads that follow an escaping op in their block and reads in a   *)
(* block that is dirty on entry.                                           *)
(***************************************************************************)
ReadBeforeDefinitionExcludes ==
    \A c \in Analysed : \A p \in Points(InitBlocks(c)) :
        LET op == OpAt(InitBlocks(c), p)
        IN  (/\ op.kind = "GetAttr" /\ op.obj_self
             /\ op.attr \in flow[c].maybe_undefined.before[p[1]][p[2]])
            => op.attr \notin always[c]

\* C2 witness: a read of a possibly undefined attribute at a point that is
\* already dirty (the loop of find_always_defined_attributes never reaches it)
ReadAfterEscapeSeen ==
    \E c \in Analysed : \E p \in Points(InitBlocks(c)) :
        LET op == OpAt(InitBlocks(c), p)
        IN  /\ op.kind = "GetAttr" /\ op.obj_self
            /\ op.attr \in flow[c].maybe_undefined.before[p[1]][p[2]]
            /\ IsDirty(flow[c].dirty.before[p[1]][p[2]])
            /\ op.attr \notin always[c]

(***************************************************************************)
(* C3.  always_initialized_attrs is a subset of sometimes_initialized_attrs *)
(* for every class in every state of the pass.                             *)
(***************************************************************************)
AlwaysSubsetOfSometimes ==
    \A c \in DOMAIN ir : always[c] \subseteq sometimes[c]

(***************************************************************************)
(* C4.  No attribute of a class's deletable attributes is in its stored    *)
(* always_initialized_attrs, in every state of the pass.                   *)
(***************************************************************************)
DeletableNeverAlways ==
    \A c \in DOMAIN ir : always[c] \cap ir[c].deletable = {}

(***************************************************************************)
(* C5.  Subclass demotion is sound: once the propagator has run over all   *)
(* classes, every attribute in the always_initialized_attrs of a class     *)
(* with known children is in the always_initialized_attrs of each of its   *)
(* descendants; while the propagator runs, this holds of the classes it    *)
(* has finished (its seen set).                                            *)
(***************************************************************************)
RECURSIVE Closure(_, _)
Closure(tab, S) ==
    LET more == S \cup UNION {Range(tab[c].children) : c \in S}
    IN  IF more = S THEN S ELSE Closure(tab, more)

\* children, grandchildren, ...
Descendants(tab, c) == Closure(tab, Range(tab[c].children))

\* The classes whose body the propagator has run to its end (seen.add)
PropagatorVisited ==
    {log[k].cl : k \in {k \in DOMAIN log :
                            log[k].pass = "propagate" /\ log[k].kind = "visit"}}

\* always_initialized_attrs of c when the propagator entered its body: what
\* the resolver assigned, the empty set if it assigned nothing
PropagatorEntryValue(c) ==
    LET ws == {k \in DOMAIN log : /\ log[k].pass = "resolve" /\ log[k].kind = "write"
                                    /\ log[k].cl = c /\ log[k].field = "always"}
    IN  IF ws = {} THEN {} ELSE log[CHOOSE k \in ws : \A j \in ws : j <= k].value

\* The classes on which a call of the propagator has returned: those the
\* loop of line 119 has passed, those whose body was run, and the children
\* of the latter when line 409 was reached (a class with children None
\* returns at line 405 without being added to seen)
Propagated ==
    {class_irs[i] : i \in 1..(CASE pc = "resolve" -> 0
                                 [] pc = "propagate" -> idx - 1
                                 [] OTHER -> Len(class_irs))}
    \cup PropagatorVisited
    \cup UNION {Range(ir[c].children) :
                  c \in {c \in PropagatorVisited : PropagatorEntryValue(c) # {}}}

SubclassDemotionSound ==
    \A c \in Propagated :
        ~ir[c].children_none =>
            \A d \in Descendants(ir, c) : always[c] \subseteq always[d]

\* C5 witness: a class with a grandchild keeps always-defined attributes
\* while its child lost some of its own in the propagator
DemotedClassWithGrandchild ==
    /\ pc = "done"
    /\ \E c \in Analysed :
          /\ always[c] # {}
          /\ \E d \in Range(ir[c].children) :
                /\ ir[d].children # <<>>
                /\ always[d] # flow[d].always_defined

(***************************************************************************)
(* C6.  Bitmap layout extension: when the allocator is done, the           *)
(* bitmap_attrs of a non-trait class with a primary base starts with the   *)
(* bitmap_attrs of that base.                                              *)
(***************************************************************************)
BitmapExtendsBase ==
    pc = "done" =>
        \A c \in DOMAIN ir :
            (~ir[c].is_trait /\ Len(ir[c].base_mro) > 1) =>
                LET base == bitmap_attrs[ir[c].base_mro[2]]
                IN  /\ Len(base) <= Len(bitmap_attrs[c])
                    /\ SubSeq(bitmap_attrs[c], 1, Len(base)) = base

(***************************************************************************)
(* C7.  As claimed: after the analysis, every class without an __init__ of *)
(* its own has always_initialized_attrs = sometimes_initialized_attrs =    *)
(* attrs_with_defaults.                                                    *)
(***************************************************************************)
NoCtorSetsEqualDefaults ==
    pc = "done" =>
        \A c \in DOMAIN ir :
            ir[c].init_blocks = NoInit =>
                /\ always[c] = ir[c].attrs_with_defaults
                /\ sometimes[c] = ir[c].attrs_with_defaults

\* The resolver has visited class c
Resolved(c) == pc # "resolve" \/ c \in seen

(***************************************************************************)
(* C7, amended.  For every class the resolver does not give up on and      *)
(* that has no __init__ anywhere in its MRO: once the resolver has visited *)
(* it, sometimes_initialized_attrs = attrs_with_defaults and               *)
(* always_initialized_attrs is a subset of attrs_with_defaults, equal to   *)
(* it until the propagator runs.                                           *)
(***************************************************************************)
NoCtorResolverCopiesDefaults ==
    \A c \in DOMAIN ir :
        (Resolved(c) /\ ~GivesUp(ir, c) /\ get_method(ir, c) = None) =>
            /\ sometimes[c] = ir[c].attrs_with_defaults
            /\ always[c] \subseteq ir[c].attrs_with_defaults
            /\ pc = "resolve" => always[c] = ir[c].attrs_with_defaults

\* C7 witness: a class without any __init__ and with a default was resolved,
\* and the propagator removed the default because of a subclass
NoCtorClassDemoted ==
    /\ pc = "done"
    /\ \E c \in DOMAIN ir :
          /\ ~GivesUp(ir, c) /\ get_method(ir, c) = None
          /\ sometimes[c] # {}
          /\ always[c] # sometimes[c]

(***************************************************************************)
(* C8.  Branching constructors.                                            *)
(***************************************************************************)
\* The points where op writes attribute a on the receiver
WritesOf(blocks, a) ==
    {p \in Points(blocks) :
        LET op == OpAt(blocks, p) IN op.kind = "SetAttr" /\ op.obj_self /\ op.attr = a}

\* The return ops, of every block
ReturnsOf(blocks) == {p \in Points(blocks) : OpAt(blocks, p).kind = "Return"}

\* a is written on the receiver on every path from the entry to every return
WrittenOnEveryPath(blocks, a) ==
    ReachAvoiding(blocks, {<<1, 1>>}, WritesOf(blocks, a)) \cap ReturnsOf(blocks)
        \subseteq WritesOf(blocks, a)

\* a is written on the receiver on some path from the entry to a return
WrittenOnSomePath(blocks, a) ==
    \E w \in WritesOf(blocks, a) \cap Reachable(blocks) :
        ReachAvoiding(blocks, {w}, {}) \cap ReturnsOf(blocks) # {}

\* a is read or written at a point where its state is uncertain
UncertainUse(c, a) ==
    \E p \in Points(InitBlocks(c)) :
        LET op == OpAt(InitBlocks(c), p)
        IN  /\ op.attr = a
            /\ \/ ReadMayBeUndefined(op, flow[c].maybe_undefined, p[1], p[2])
               \/ WriteIsUncertain(op, flow[c].maybe_defined, flow[c].maybe_undefined,
                                   p[1], p[2])

\* The resolver's results for the constructor of the docstring's first example
Example1Result ==
    \A c \in Analysed :
        (InitBlocks(c) = InitExample1 /\ ir[c].attrs_with_defaults = {}) =>
            /\ flow[c].always_defined = {"x", "y"}
            /\ sometimes[c] = {"x", "y", "z"}

\* C8 as claimed: an attribute written on every path to every return and
\* never used at an uncertain point is always-defined; an attribute written
\* on some paths only is sometimes-defined and not always-defined; the
\* example constructor yields {x, y} and {x, y, z}.
BranchingConstructorRule ==
    /\ Example1Result
    /\ \A c \in Analysed : \A a \in flow[c].all_attrs :
          /\ (WrittenOnEveryPath(InitBlocks(c), a) /\ ~UncertainUse(c, a))
                => a \in flow[c].always_defined
          /\ (WrittenOnSomePath(InitBlocks(c), a) /\ ~WrittenOnEveryPath(InitBlocks(c), a))
                => (a \in sometimes[c] /\ a \notin flow[c].always_defined)

\* No op of the constructor other than a return is dirty, and every block
\* can be reached from the entry
NoEscapeAllReachable(c) ==
    /\ \A p \in Points(InitBlocks(c)) :
          IsDirty(flow[c].dirty.after[p[1]][p[2]]) => OpAt(InitBlocks(c), p).kind = "Return"
    /\ Reachable(InitBlocks(c)) = Points(InitBlocks(c))

\* Some path from the entry reaches a return with a still undefined
UndefinedAtSomeReturn(c, a) ==
    UndefinedBefore(InitBlocks(c), a, ir[c].attrs_with_defaults, flow[c].init_attrs)
        \cap ReturnsOf(InitBlocks(c)) # {}

(***************************************************************************)
(* C8, amended.  For an analysed class whose constructor has every block   *)
(* reachable and no escape other than at returns: a non-deletable          *)
(* attribute written on every path to every return and never used at an    *)
(* uncertain point is in the resolver's always-defined set; an attribute   *)
(* written on some path to a return and left undefined on another path to  *)
(* a return is sometimes-defined and not always-defined.  The example      *)
(* constructor yields {x, y} and {x, y, z}.                                *)
(***************************************************************************)
BranchingConstructorRuleNoEscape ==
    /\ Example1Result
    /\ \A c \in Analysed : NoEscapeAllReachable(c) =>
          \A a \in flow[c].all_attrs :
              /\ (/\ WrittenOnEveryPath(InitBlocks(c), a)
                  /\ ~UncertainUse(c, a)
                  /\ ~is_deletable(ir, c, a))
                    => a \in flow[c].always_defined
              /\ (WrittenOnSomePath(InitBlocks(c), a) /\ UndefinedAtSomeReturn(c, a))
                    => (a \in sometimes[c] /\ a \notin flow[c].always_defined)

\* C8 witness: the example constructor was analysed, with its three results
Example1Analysed ==
    \E c \in Analysed :
        /\ InitBlocks(c) = InitExample1
        /\ flow[c].always_defined = {"x", "y"}
        /\ sometimes[c] \ flow[c].always_defined = {"z"}

(***************************************************************************)
(* C9.  Freeze at escape: if some path from the entry reaches a point      *)
(* that is dirty after an op other than a return while attribute a is      *)
(* still undefined on that path, then a is not always-defined, also when   *)
(* a is written later; in particular x of "self.x = self.foo()", x having  *)
(* no class-body default, is not.                                          *)
(***************************************************************************)
FreezeAtEscape ==
    \A c \in Analysed :
        /\ (InitBlocks(c) = InitExample2 /\ "x" \notin ir[c].attrs_with_defaults)
              => "x" \notin always[c]
        /\ \A a \in flow[c].all_attrs :
              (\E p \in UndefinedAfter(InitBlocks(c), a, ir[c].attrs_with_defaults,
                                       flow[c].init_attrs) :
                  /\ OpAt(InitBlocks(c), p).kind # "Return"
                  /\ IsDirty(flow[c].dirty.after[p[1]][p[2]]))
              => a \notin always[c]

\* C9 witness: a clean jump enters a block that is dirty on entry with a
\* undefined, and a is written afterwards
CleanJumpIntoDirtyBlock ==
    \E c \in Analysed : \E a \in flow[c].all_attrs :
        \E p \in UndefinedBefore(InitBlocks(c), a, ir[c].attrs_with_defaults,
                                 flow[c].init_attrs) :
            /\ p[2] = 1
            /\ IsDirty(flow[c].dirty.before[p[1]][1])
            /\ \E b \in Pred(InitBlocks(c), p[1]) :
                  /\ ~IsDirty(flow[c].dirty.after[b][Len(InitBlocks(c)[b])])
                  /\ <<b, Len(InitBlocks(c)[b])>> \in Reachable(InitBlocks(c))
            /\ ReachAvoiding(InitBlocks(c), {p}, {}) \cap WritesOf(InitBlocks(c), a) # {}
            /\ a \notin always[c]

(***************************************************************************)
(* C10.  Chained constructors.                                             *)
(***************************************************************************)
\* The __init__ calls of the constructor analysed for c
InitCalls(c) == {p \in Points(InitBlocks(c)) : IsInitCall(OpAt(InitBlocks(c), p))}

\* Every attribute the callee class guarantees counts as defined after an
\* __init__ call: it is maybe-defined and not maybe-undefined
InitCallDefines ==
    \A c \in Analysed : \A p \in InitCalls(c) :
        LET guaranteed == flow[c].init_attrs[OpAt(InitBlocks(c), p).init_of]
        IN  /\ guaranteed \subseteq flow[c].maybe_defined.after[p[1]][p[2]]
            /\ guaranteed \cap flow[c].maybe_undefined.after[p[1]][p[2]] = {}

\* Class c has its own constructor "base.__init__(self); self.r = ...; return"
\* and the base class guarantees exactly p and q
IsChainedExample(c) ==
    /\ c \in Analysed
    /\ Len(ir[c].mro) > 1
    /\ \E r \in Range(ir[c].attributes) : ir[c].init_blocks = InitChained(ir[c].mro[2], r)
    /\ flow[c].init_attrs[ir[c].mro[2]] = {"p", "q"}

\* C10 as claimed: the derived class of the example gets {p, q, r}, and an
\* __init__ call defines what the callee guarantees
ChainedConstructorRule ==
    /\ InitCallDefines
    /\ \A c \in DOMAIN ir :
          IsChainedExample(c) =>
              flow[c].always_defined = {"p", "q"} \cup Range(ir[c].attributes)

(***************************************************************************)
(* C10, amended.  When the base class constructor does not leak self       *)
(* (init_self_leak of the base is false), the derived class of the example *)
(* gets {p, q, r} from the resolver; when it leaks, the call is an escape  *)
(* and the derived class gets {p, q}.  In both cases an __init__ call      *)
(* defines what the callee guarantees.                                     *)
(***************************************************************************)
ChainedConstructorRuleNoLeak ==
    /\ InitCallDefines
    /\ \A c \in DOMAIN ir :
          IsChainedExample(c) =>
              flow[c].always_defined =
                  IF init_self_leak[ir[c].mro[2]]
                  THEN {"p", "q"}
                  ELSE {"p", "q"} \cup Range(ir[c].attributes)

\* C10 witness: the derived class of the example, base not leaking, has
\* {p, q, r} after the whole analysis
ChainedExampleResolved ==
    /\ pc = "done"
    /\ \E c \in DOMAIN ir :
          /\ IsChainedExample(c)
          /\ ~init_self_leak[ir[c].mro[2]]
          /\ always[c] = {"p", "q", "r"}

(***************************************************************************)
(* C11.  Result of the subclass propagation.                               *)
(***************************************************************************)
\* The positions of the history where pass wrote field of class c
WritesTo(pass, c, field) ==
    {k \in DOMAIN log : /\ log[k].pass = pass /\ log[k].kind = "write"
                        /\ log[k].cl = c /\ log[k].field = field}

\* What the resolver stored in always_initialized_attrs of c (nothing stored:
\* the set is still empty)
ResolverAlways(c) ==
    IF WritesTo("resolve", c, "always") = {} THEN {}
    ELSE log[CHOOSE k \in WritesTo("resolve", c, "always") :
                \A j \in WritesTo("resolve", c, "always") : j <= k].value

\* The attributes that are in always_initialized_attrs of every child of c
InEveryChild(c) ==
    {a \in ResolverAlways(c) : \A d \in Range(ir[c].children) : a \in always[d]}

\* C11: once the propagation is over, always_initialized_attrs of a class
\* with a known children set is its resolver result intersected with the
\* sets of all its children
PropagationResult ==
    pc \in {"bitmap", "done"} =>
        \A c \in DOMAIN ir :
            ~ir[c].children_none => always[c] = InEveryChild(c)

\* C11 witness: the base's own analysis gives p, one child keeps p, another
\* child does not have it, and the base has lost p after the propagation
BaseLosesAttrOfOneChild ==
    /\ pc = "done"
    /\ \E c \in DOMAIN ir : \E d, e \in Range(ir[c].children) :
          /\ ~ir[c].children_none
          /\ "p" \in ResolverAlways(c)
          /\ "p" \in always[d]
          /\ "p" \notin always[e]
          /\ "p" \notin always[c]

(***************************************************************************)
(* C12.  Bitmap completeness.                                              *)
(***************************************************************************)
\* The attributes declared by class b that need a bitmap slot: error_overlap
\* representation and not always defined in b
NeedsSlot(b) ==
    {v \in Range(ir[b].attributes) :
        v \in ir[b].error_overlap /\ ~is_always_defined(ir, always, b, v)}

\* The positions of the attributes of set S in sequence s
PositionsOf(s, S) == {i \in DOMAIN s : s[i] \in S}

\* C12: when the allocator is done, bitmap_attrs of a non-trait class c has
\* every attribute that needs a slot in c or in a class of c's base chain;
\* the attributes of c itself come after the inherited ones, in the order
\* of their declaration
BitmapComplete ==
    pc = "done" =>
        \A c \in DOMAIN ir :
            ~ir[c].is_trait =>
                LET bm == bitmap_attrs[c]
                    inherited == UNION {NeedsSlot(b) :
                                        b \in Range(ir[c].base_mro) \ {c}}
                    decl == ir[c].attributes
                IN  /\ \A b \in Range(ir[c].base_mro) : NeedsSlot(b) \subseteq Range(bm)
                    /\ \A i \in PositionsOf(bm, NeedsSlot(c) \ inherited) :
                          \A j \in PositionsOf(bm, inherited) : j < i
                    /\ \A i, j \in PositionsOf(bm, NeedsSlot(c)) :
                          i < j => \E k, l \in DOMAIN decl :
                                      /\ decl[k] = bm[i] /\ decl[l] = bm[j] /\ k < l

(***************************************************************************)
(* C13.  Soundness of the initializing-write tag.                          *)
(***************************************************************************)
\* In the analysis of class c, the attribute written at point p is not
\* defined on any path from the constructor's entry to p: it has no default
\* in the class body, and no path reaches p through a receiver write of it
\* or through an __init__ call of a class that always or sometimes
\* initializes it
NotDefinedBefore(c, p) ==
    LET blocks == InitBlocks(c)
        a == OpAt(blocks, p).attr
        R == Reachable(blocks)
    IN  p \in R =>
            /\ a \notin ir[c].attrs_with_defaults
            /\ \A q \in R :
                  Defines(OpAt(blocks, q), a, flow[c].maybe_init_attrs) =>
                      p \notin ReachAvoiding(blocks, NextPoints(blocks, q), {})

\* The analysed classes whose constructor is function m
AnalysedWith(m) == {c \in Analysed : flow[c].m = m}

\* C13: every tagged op is a receiver write that, in the analysis of some
\* class that tagged it, writes an attribute not defined on any path from
\* the entry to the op, at a point where the receiver has not escaped
InitTagSound ==
    \A t \in is_init :
        \E c \in AnalysedWith(t[1]) :
            LET p == <<t[2], t[3]>>
                op == OpAt(InitBlocks(c), p)
            IN  /\ op.kind = "SetAttr" /\ op.obj_self
                /\ NotDefinedBefore(c, p)
                /\ ~IsDirty(flow[c].dirty.after[p[1]][p[2]])

\* C13 witness: a constructor with a tagged write of an attribute and a
\* later, reachable write of the same attribute that is not tagged
TaggedFirstWriteOnly ==
    \E c \in Analysed : \E p, q \in Reachable(InitBlocks(c)) :
        /\ <<flow[c].m, p[1], p[2]>> \in is_init
        /\ <<flow[c].m, q[1], q[2]>> \notin is_init
        /\ OpAt(InitBlocks(c), q).kind = "SetAttr"
        /\ OpAt(InitBlocks(c), q).attr = OpAt(InitBlocks(c), p).attr
        /\ q \in ReachAvoiding(InitBlocks(c), NextPoints(InitBlocks(c), p), {})
        /\ ~IsDirty(flow[c].dirty.after[q[1]][q[2]])

(***************************************************************************)
(* C14.  init_self_leak.                                                   *)
(***************************************************************************)
\* The points of the constructor analysed for c that the escape analysis
\* reports dirty after the op
EscapedAfter(c) ==
    {p \in Points(InitBlocks(c)) : flow[c].dirty.after[p[1]][p[2]] # {}}

\* C14: init_self_leak of an analysed class is true exactly when some op
\* other than a return is dirty after; in particular it is false when only
\* returns are, and true for "x = self.compute(); self.x = x; return"
LeakFlagIffEscapeBeforeReturn ==
    \A c \in Analysed :
        /\ init_self_leak[c] =
              (\E p \in EscapedAfter(c) : OpAt(InitBlocks(c), p).kind # "Return")
        /\ InitBlocks(c) = InitExample2 => init_self_leak[c]

\* C14 witness: an analysed constructor whose only dirty ops are returns,
\* reached by the analysis, with the flag false
OnlyReturnsEscape ==
    \E c \in Analysed :
        /\ EscapedAfter(c) \cap Reachable(InitBlocks(c)) # {}
        /\ \A p \in EscapedAfter(c) : OpAt(InitBlocks(c), p).kind = "Return"
        /\ ~init_self_leak[c]
        /\ pc = "done"

(***************************************************************************)
(* C15.  Excluded classes.                                                 *)
(***************************************************************************)
\* Class c is a trait, inherits from a Python class, allows interpreted
\* subclasses, has a builtin base, has an unknown children set, or is
\* serializable (itself or through a class of its MRO)
Excluded(c) ==
    \/ ir[c].is_trait
    \/ ir[c].inherits_python
    \/ ir[c].allow_interpreted_subclasses
    \/ ir[c].builtin_base
    \/ ir[c].children_none
    \/ \E b \in Range(ir[c].mro) : ir[b].serializable

\* C15: the resolver never writes a result field of an excluded class, and
\* its two attribute sets never hold an attribute without a default
ExcludedClassUntouched ==
    \A c \in DOMAIN ir :
        Excluded(c) =>
            /\ \A f \in {"always", "sometimes", "init_self_leak"} :
                  WritesTo("resolve", c, f) = {}
            /\ always[c] \subseteq ir[c].attrs_with_defaults
            /\ sometimes[c] \subseteq ir[c].attrs_with_defaults
            /\ ~init_self_leak[c]

\* C15 witness: the analysis is over for an excluded class that has a
\* constructor writing attributes and that the resolver has visited
ExcludedClassWithConstructor ==
    /\ pc = "done"
    /\ \E c \in DOMAIN ir :
          /\ Excluded(c)
          /\ \E k \in DOMAIN log : log[k].pass = "resolve" /\ log[k].kind = "visit" /\ log[k].cl = c
          /\ \E p \in Points(ir[c].init_blocks) : OpAt(ir[c].init_blocks, p).kind = "SetAttr"

(***************************************************************************)
(* C16.  Write-once result fields.                                         *)
(***************************************************************************)
Passes == {"resolve", "propagate", "bitmap"}

\* The positions of the history where some pass wrote field of class c
AllWritesTo(c, field) == UNION {WritesTo(pass, c, field) : pass \in Passes}

\* The value of a result field before the analysis
InitialValue(field) ==
    CASE field = "init_self_leak" -> FALSE
      [] field = "bitmap_attrs" -> <<>>
      [] OTHER -> {}

\* The value the field written at position k had before that write
ValueBefore(k) ==
    LET prev == {j \in AllWritesTo(log[k].cl, log[k].field) : j < k}
    IN  IF prev = {} THEN InitialValue(log[k].field)
        ELSE log[CHOOSE j \in prev : \A i \in prev : i <= j].value

\* The writes of field of class c that changed its value
ChangesOf(c, field) ==
    {k \in AllWritesTo(c, field) : log[k].value # ValueBefore(k)}

\* C16 as claimed: each of the four result fields of each class is changed
\* at most once during the run (hence by one pass only)
EachFieldWrittenOnce ==
    \A c \in DOMAIN ir :
        \A f \in {"always", "sometimes", "init_self_leak", "bitmap_attrs"} :
            Cardinality(ChangesOf(c, f)) <= 1

(***************************************************************************)
(* C16, amended.  sometimes_initialized_attrs and init_self_leak of a      *)
(* class are written by the resolver only, at most once; bitmap_attrs by   *)
(* the bitmap pass only, during its single visit of the class (by the      *)
(* statements that follow seen.add, each of which extends the list);       *)
(* always_initialized_attrs is assigned at most once by the resolver and   *)
(* then updated at most once by the propagator, which only removes         *)
(* attributes from it.                                                     *)
(***************************************************************************)
\* The positions of the history where the bitmap pass visited c
BitmapVisits(c) ==
    {k \in DOMAIN log : log[k].pass = "bitmap" /\ log[k].kind = "visit" /\ log[k].cl = c}

FieldsWrittenOncePerPass ==
    \A c \in DOMAIN ir :
        /\ \A f \in {"sometimes", "init_self_leak"} :
              /\ AllWritesTo(c, f) = WritesTo("resolve", c, f)
              /\ Cardinality(WritesTo("resolve", c, f)) <= 1
        /\ AllWritesTo(c, "bitmap_attrs") = WritesTo("bitmap", c, "bitmap_attrs")
        /\ Cardinality(BitmapVisits(c)) <= 1
        /\ \A k \in WritesTo("bitmap", c, "bitmap_attrs") :
              /\ \E v \in BitmapVisits(c) :
                    \A i \in (v + 1)..k : i \in WritesTo("bitmap", c, "bitmap_attrs")
              /\ Len(ValueBefore(k)) <= Len(log[k].value)
              /\ SubSeq(log[k].value, 1, Len(ValueBefore(k))) = ValueBefore(k)
        /\ WritesTo("bitmap", c, "always") = {}
        /\ Cardinality(WritesTo("resolve", c, "always")) <= 1
        /\ Cardinality(WritesTo("propagate", c, "always")) <= 1
        /\ \A k \in WritesTo("propagate", c, "always") :
              /\ \A j \in WritesTo("resolve", c, "always") : j < k
              /\ log[k].value \subseteq ResolverAlways(c)

\* C16 witness: the analysis is over for a class whose
\* always_initialized_attrs the resolver assigned and the propagator then
\* changed
AlwaysChangedByTwoPasses ==
    /\ pc = "done"
    /\ \E c \in DOMAIN ir :
          /\ ChangesOf(c, "always") \cap WritesTo("resolve", c, "always") # {}
          /\ ChangesOf(c, "always") \cap WritesTo("propagate", c, "always") # {}
          /\ WritesTo("bitmap", c, "bitmap_attrs") # {}

(***************************************************************************)
(* C17.  Uncertain writes.                                                 *)
(***************************************************************************)
\* The ops the loop of find_always_defined_attributes looks at: those of a
\* block up to and including the first op that is dirty after (the break of
\* line 230)
VisitedOps(c) ==
    {p \in Points(InitBlocks(c)) :
        \A i \in 1..(p[2] - 1) : ~IsDirty(flow[c].dirty.after[p[1]][i])}

\* The receiver writes in the constructor analysed for c at which line 221
\* runs: the op is looked at, and its attribute is both maybe-undefined and
\* maybe-defined before it.  Every such write at a point the receiver has
\* not escaped before is among them.
UncertainWrites(c) ==
    {p \in VisitedOps(c) :
        LET op == OpAt(InitBlocks(c), p)
        IN  /\ op.kind = "SetAttr" /\ op.obj_self
            /\ op.attr \in flow[c].maybe_undefined.before[p[1]][p[2]]
            /\ op.attr \in flow[c].maybe_defined.before[p[1]][p[2]]}

\* C17: an attribute with an uncertain write (in particular one at a point
\* the receiver has not escaped before) is not in always_initialized_attrs
UncertainWriteExcludes ==
    \A c \in Analysed : \A p \in UncertainWrites(c) :
        /\ OpAt(InitBlocks(c), p).attr \notin flow[c].always_defined
        /\ OpAt(InitBlocks(c), p).attr \notin always[c]

\* C17 witness: "if c: self.x = 1" followed by an unconditional
\* "self.x = 2": x is written on every path to every return, the receiver
\* never escapes before a return, and x is not always defined
UncertainWriteAfterBranch ==
    \E c \in Analysed : \E p \in UncertainWrites(c) \cap Reachable(InitBlocks(c)) :
        LET a == OpAt(InitBlocks(c), p).attr
        IN  /\ ~IsDirty(flow[c].dirty.before[p[1]][p[2]])
            /\ WrittenOnEveryPath(InitBlocks(c), a)
            /\ ReturnsOf(InitBlocks(c)) \cap Reachable(InitBlocks(c)) # {}
            /\ \A q \in EscapedAfter(c) : OpAt(InitBlocks(c), q).kind = "Return"
            /\ a \notin always[c]
            /\ a \in sometimes[c]

(***************************************************************************)
(* C18.  Which writes are tagged.                                          *)
(***************************************************************************)
\* The receiver writes of function m
ReceiverWrites(m) ==
    {p \in Points(ir[m].init_blocks) :
        OpAt(ir[m].init_blocks, p).kind = "SetAttr" /\ OpAt(ir[m].init_blocks, p).obj_self}

\* In the analysis of c, the attribute written at p is not maybe-defined
\* before the op and the receiver is not escaped after it
FirstWriteBeforeEscape(c, p) ==
    /\ OpAt(InitBlocks(c), p).attr \notin flow[c].maybe_defined.before[p[1]][p[2]]
    /\ flow[c].dirty.after[p[1]][p[2]] = {}

\* In the analysis of c, the attribute written at p is maybe-undefined
\* before the op
MaybeUndefinedBefore(c, p) ==
    OpAt(InitBlocks(c), p).attr \in flow[c].maybe_undefined.before[p[1]][p[2]]

\* C18 as claimed: a receiver write of an analysed constructor is tagged
\* exactly when, in an analysis of that constructor, its attribute is
\* maybe-undefined before, not maybe-defined before, and the receiver is not
\* escaped after the op
TaggedIffUndefinedAndNotDefined ==
    \A m \in DOMAIN ir : AnalysedWith(m) # {} =>
        \A p \in ReceiverWrites(m) :
            <<m, p[1], p[2]>> \in is_init <=>
                \E c \in AnalysedWith(m) :
                    MaybeUndefinedBefore(c, p) /\ FirstWriteBeforeEscape(c, p)

(***************************************************************************)
(* C18, amended.  A receiver write of an analysed constructor is tagged    *)
(* exactly when, in an analysis of that constructor, its attribute is not  *)
(* maybe-defined before and the receiver is not escaped after the op.      *)
(* Whether the attribute is maybe-undefined before is not tested; it       *)
(* follows from the two conditions when the op is reachable from the       *)
(* constructor's entry.                                                    *)
(***************************************************************************)
TaggedIffNotDefined ==
    /\ \A m \in DOMAIN ir : AnalysedWith(m) # {} =>
          \A p \in ReceiverWrites(m) :
              <<m, p[1], p[2]>> \in is_init <=>
                  \E c \in AnalysedWith(m) : FirstWriteBeforeEscape(c, p)
    /\ \A c \in Analysed :
          \A p \in ReceiverWrites(flow[c].m) \cap Reachable(InitBlocks(c)) :
              FirstWriteBeforeEscape(c, p) => MaybeUndefinedBefore(c, p)

\* C18 witness: a constructor with a reachable tagged write of an attribute
\* that is maybe-undefined before it, and a reachable write, the receiver
\* not escaped, left untagged because its attribute may already be defined
TaggedAndUntaggedWrites ==
    \E c \in Analysed :
        \E p, r \in ReceiverWrites(flow[c].m) \cap Reachable(InitBlocks(c)) :
            /\ <<flow[c].m, p[1], p[2]>> \in is_init
            /\ MaybeUndefinedBefore(c, p)
            /\ <<flow[c].m, r[1], r[2]>> \notin is_init
            /\ flow[c].dirty.after[r[1]][r[2]] = {}

(***************************************************************************)
(* C19.  sometimes_initialized_attrs.                                      *)
(***************************************************************************)
\* The ops of the constructor analysed for c at which the receiver escapes:
\* dirty after and not dirty before
EscapeOps(c) ==
    {p \in EscapedAfter(c) : flow[c].dirty.before[p[1]][p[2]] = {}}

\* The first ops of the blocks that are dirty on entry and are the target of
\* a branch or jump that is itself not dirty
DirtyTargets(c) ==
    {<<t, 1>> : t \in
        {t \in DOMAIN InitBlocks(c) :
            /\ flow[c].dirty.before[t][1] # {}
            /\ \E b \in DOMAIN InitBlocks(c) :
                  LET last == Len(InitBlocks(c)[b])
                  IN  /\ t \in Range(InitBlocks(c)[b][last].targets)
                      /\ flow[c].dirty.after[b][last] = {}}}

\* C19: sometimes_initialized_attrs of an analysed class is the union of the
\* maybe-defined-after sets at the points where the receiver escapes;
\* nothing is taken out for reads or for deletable attributes
SometimesIsUnionAtEscapes ==
    \A c \in Analysed :
        sometimes[c] = UNION {flow[c].maybe_defined.after[p[1]][p[2]] :
                              p \in EscapeOps(c) \cup DirtyTargets(c)}

\* C19 witness: an analysed constructor with an escaping op and a clean
\* jump into a dirty block, whose sometimes set has an attribute that is
\* not always defined
SometimesFromBothKinds ==
    \E c \in Analysed :
        /\ EscapeOps(c) # {}
        /\ DirtyTargets(c) # {}
        /\ sometimes[c] \ always[c] # {}

(***************************************************************************)
(* C20.  The resolver analyses ancestors first.                            *)
(***************************************************************************)
\* The positions of the history where the resolver did kind for class c
ResolverEvents(kind, c) ==
    {k \in DOMAIN log : log[k].pass = "resolve" /\ log[k].kind = kind /\ log[k].cl = c}

\* C20: when the resolver reaches the body of class c, every other class of
\* c's MRO has been visited, has had its own body run unless it is
\* excluded, and gets no resolver write afterwards; no body runs twice
AncestorsResolvedFirst ==
    \A c \in DOMAIN ir :
        /\ Cardinality(ResolverEvents("body", c)) <= 1
        /\ \A k \in ResolverEvents("body", c) :
              \A b \in Range(ir[c].mro) \ {c} :
                  /\ \E j \in ResolverEvents("visit", b) : j < k
                  /\ ~Excluded(b) => \E j \in ResolverEvents("body", b) : j < k
                  /\ \A j \in ResolverEvents("write", b) : j < k

\* C20 witness: the class list starts with a class that has three classes
\* before it in its MRO, two of them traits in a diamond; its body has run
\* after the body of its base class
DiamondListedDerivedFirst ==
    /\ pc = "done"
    /\ \E c \in DOMAIN ir :
          /\ class_irs[1] = c
          /\ Len(ir[c].mro) = 4
          /\ \E b \in Range(ir[c].mro) \ {c} :
                \E j \in ResolverEvents("body", b) :
                    \E k \in ResolverEvents("body", c) : j < k

(***************************************************************************)
(* C21.  The bitmap pass processes bases first.                            *)
(***************************************************************************)
\* C21: whenever the bitmap pass builds bitmap_attrs of a class with a
\* primary base (line 427 copies the base's list), the bitmap pass has
\* already built the base's bitmap_attrs: it visited the base before, and
\* no update of the base's list comes later
BitmapBaseFinalWhenCopied ==
    \A c \in DOMAIN ir :
        Len(ir[c].base_mro) > 1 =>
            \A k \in WritesTo("bitmap", c, "bitmap_attrs") :
                /\ \E v \in BitmapVisits(ir[c].base_mro[2]) : v < k
                /\ \A j \in WritesTo("bitmap", ir[c].base_mro[2], "bitmap_attrs") : j < k

(***************************************************************************)
(* C22.  Independence of the order of the class list.                      *)
(***************************************************************************)
\* The three loops of analyze_always_defined_attrs over class list order
RECURSIVE resolve_all(_, _, _, _)
resolve_all(tab, st, order, k) ==
    IF k > Len(order) THEN st
    ELSE resolve_all(tab, analyze_always_defined_attrs_in_class(tab, st, order[k]),
                     order, k + 1)

RECURSIVE propagate_all(_, _, _, _)
propagate_all(tab, st, order, k) ==
    IF k > Len(order) THEN st
    ELSE propagate_all(tab,
             update_always_defined_attrs_using_subclasses(tab, st, order[k]),
             order, k + 1)

RECURSIVE bitmap_all(_, _, _, _, _)
bitmap_all(tab, alw, st, order, k) ==
    IF k > Len(order) THEN st
    ELSE bitmap_all(tab, alw, detect_undefined_bitmap(tab, alw, st, order[k]),
                    order, k + 1)

\* The result fields and tags analyze_always_defined_attrs leaves when it is
\* run on class list order
analyze_always_defined_attrs(tab, order) ==
    Value({
      Value({
        Value({[always |-> st2.always,
                sometimes |-> st1.sometimes,
                init_self_leak |-> st1.init_self_leak,
                bitmap_attrs |-> st3.bitmap_attrs,
                is_init |-> st1.is_init] :
          st3 \in {bitmap_all(tab, st2.always,
                      [seen |-> {}, bitmap_attrs |-> [c \in DOMAIN tab |-> <<>>],
                       log |-> <<>>],
                      order, 1)}}) :
        st2 \in {propagate_all(tab,
                    [seen |-> {}, always |-> st1.always, log |-> <<>>], order, 1)}}) :
      st1 \in {resolve_all(tab,
                  [seen |-> {}, always |-> [c \in DOMAIN tab |-> {}],
                   sometimes |-> [c \in DOMAIN tab |-> {}],
                   init_self_leak |-> [c \in DOMAIN tab |-> FALSE],
                   is_init |-> {}, flow |-> [c \in DOMAIN tab |-> NoFlow],
                   log |-> <<>>],
                  order, 1)}})

\* C22: the results of a finished run are those of a run on any other order
\* of the same class list
OrderIndependent ==
    pc = "done" =>
        \A order \in Orders(Range(class_irs)) :
            analyze_always_defined_attrs(ir, order) =
                [always |-> always, sometimes |-> sometimes,
                 init_self_leak |-> init_self_leak,
                 bitmap_attrs |-> bitmap_attrs, is_init |-> is_init]

(***************************************************************************)
(* C23.  What the subclass propagator changes.                             *)
(***************************************************************************)
\* Class c has no children, or its children are unknown
LeafOrOpen(c) == ir[c].children_none \/ ir[c].children = <<>>

\* A step of the propagation pass only removes attributes from
\* always_initialized_attrs, and removes none from a leaf class or a class
\* with unknown children
PropagateStepRemovesOnly ==
    pc = "propagate" =>
        /\ \A c \in DOMAIN ir :
              /\ always'[c] \subseteq always[c]
              /\ LeafOrOpen(c) => always'[c] = always[c]
        /\ sometimes' = sometimes
        /\ init_self_leak' = init_self_leak
        /\ bitmap_attrs' = bitmap_attrs
        /\ is_init' = is_init

\* C23: the propagator only removes attributes from always_initialized_attrs;
\* after it, a leaf class and a class with unknown children have the set
\* the resolver wrote; no other result field and no tag changes
PropagatorOnlyRemoves ==
    /\ [](pc \in {"bitmap", "done"} =>
            \A c \in DOMAIN ir : LeafOrOpen(c) => always[c] = ResolverAlways(c))
    /\ [][PropagateStepRemovesOnly]_vars

\* C23 witness: the propagation is over; a class has lost an attribute the
\* resolver gave it, and a leaf class still has its non-empty resolver
\* result
PropagatedWithLeafKept ==
    /\ pc = "bitmap" /\ idx = 1
    /\ \E c \in DOMAIN ir : ~LeafOrOpen(c) /\ always[c] # ResolverAlways(c)
    /\ \E d \in DOMAIN ir :
          /\ ir[d].children = <<>> /\ ~ir[d].children_none
          /\ always[d] # {} /\ always[d] = ResolverAlways(d)
    /\ is_init # {}

(***************************************************************************)
(* C24.  Termination of the subclass propagator.  The second pass is run   *)
(* one step at a time, with an explicit call stack, on class graphs whose  *)
(* children relation is arbitrary (cycles included) and whose              *)
(* always_initialized_attrs are any resolver result.                       *)
(***************************************************************************)
MaxDepth == 4     \* stack depth at which the recursion is cut off

PropClasses == {"A", "B", "C"}

\* The class graph with the given children; only children and
\* children_none are read by the propagator
PropGraph(children) ==
    [c \in PropClasses |->
        ClassIR(<<c>>, <<c>>, children[c], <<"p", "q">>, {}, {}, {}, NoInit)]

\* A frame of update_always_defined_attrs_using_subclasses(cl, seen): the
\* attributes the outer loop iterates (in the order the set is iterated), the positions of both loops, the
\* local removed, and whether the recursive call of line 409 was made
Frame(cl, attrs) ==
    [cl |-> cl, attrs |-> attrs, j |-> 1, k |-> 1, removed |-> {}, called |-> FALSE]

\* Lines 401-405: the call returns without entering the body
ReturnsAtOnce(cl) == cl \in seen \/ ir[cl].children_none

MaxChildren == 2  \* children of a class of the input graphs

\* The children lists of the input graphs
ChildLists ==
    UNION {Orders(S) : S \in {S \in SUBSET PropClasses : Cardinality(S) <= MaxChildren}}

PropInit ==
    \E children \in [PropClasses -> ChildLists],
       alw \in [PropClasses -> {{}, {"p"}, {"p", "q"}}] :
        /\ ir = PropGraph(children)
        /\ class_irs = <<"A", "B", "C">>
        /\ pc = "propagate"
        /\ idx = 1
        /\ seen = {}
        /\ always = alw
        /\ sometimes = alw
        /\ init_self_leak = [c \in PropClasses |-> FALSE]
        /\ bitmap_attrs = [c \in PropClasses |-> <<>>]
        /\ is_init = {}
        /\ flow = [c \in PropClasses |-> NoFlow]
        /\ log = <<>>
        /\ stack = <<>>

\* Line 120: the loop of the second pass calls the function on the next class
PCall ==
    /\ pc = "propagate" /\ stack = <<>> /\ idx <= Len(class_irs)
    /\ idx' = idx + 1
    /\ IF ReturnsAtOnce(class_irs[idx])
       THEN UNCHANGED <<stack, log>>
       ELSE /\ \E attrs \in Orders(always[class_irs[idx]]) :
                   stack' = <<Frame(class_irs[idx], attrs)>>
            /\ log' = Append(log, Event("propagate", "body", class_irs[idx], None, {}))
    /\ UNCHANGED <<ir, class_irs, pc, seen, always, sometimes, init_self_leak,
                   bitmap_attrs, is_init, flow>>

\* The frame on top of the stack is at the recursive call of line 409
AtCall(f) ==
    /\ f.j <= Len(f.attrs) /\ f.k <= Len(ir[f.cl].children) /\ ~f.called

\* Line 409: the recursive call on the next child
PRecurse ==
    /\ pc = "propagate" /\ stack # <<>>
    /\ LET f == stack[Len(stack)]
           child == ir[f.cl].children[f.k]
           below == [stack EXCEPT ![Len(stack)].called = TRUE]
       IN  /\ AtCall(f)
           /\ IF ReturnsAtOnce(child)
              THEN stack' = below /\ UNCHANGED log
              ELSE /\ Len(stack) < MaxDepth
                   /\ \E attrs \in Orders(always[child]) :
                          stack' = Append(below, Frame(child, attrs))
                   /\ log' = Append(log, Event("propagate", "body", child, None, {}))
    /\ UNCHANGED <<ir, class_irs, pc, idx, seen, always, sometimes, init_self_leak,
                   bitmap_attrs, is_init, flow>>

\* Line 409 when the stack is full: the recursion does not end
POverflow ==
    /\ pc = "propagate" /\ stack # <<>>
    /\ LET f == stack[Len(stack)]
       IN  /\ AtCall(f)
           /\ ~ReturnsAtOnce(ir[f.cl].children[f.k])
           /\ Len(stack) = MaxDepth
    /\ pc' = "overflow"
    /\ UNCHANGED <<ir, class_irs, idx, seen, always, sometimes, init_self_leak,
                   bitmap_attrs, is_init, flow, log, stack>>

\* Lines 410-411, after the recursive call has returned
PTest ==
    /\ pc = "propagate" /\ stack # <<>>
    /\ LET f == stack[Len(stack)]
       IN  /\ f.called
           /\ stack' = [stack EXCEPT ![Len(stack)] =
                  [f EXCEPT !.called = FALSE, !.k = f.k + 1,
                            !.removed = IF f.attrs[f.j] \notin
                                            always[ir[f.cl].children[f.k]]
                                        THEN f.removed \cup {f.attrs[f.j]}
                                        ELSE f.removed]]
    /\ UNCHANGED <<ir, class_irs, pc, idx, seen, always, sometimes, init_self_leak,
                   bitmap_attrs, is_init, flow, log>>

\* Line 407: the inner loop is over, the outer loop takes the next attribute
PNextAttr ==
    /\ pc = "propagate" /\ stack # <<>>
    /\ LET f == stack[Len(stack)]
       IN  /\ f.j <= Len(f.attrs) /\ f.k > Len(ir[f.cl].children) /\ ~f.called
           /\ stack' = [stack EXCEPT ![Len(stack)] = [f EXCEPT !.j = f.j + 1, !.k = 1]]
    /\ UNCHANGED <<ir, class_irs, pc, idx, seen, always, sometimes, init_self_leak,
                   bitmap_attrs, is_init, flow, log>>

\* Lines 412-413: the outer loop is over
PReturn ==
    /\ pc = "propagate" /\ stack # <<>>
    /\ LET f == stack[Len(stack)]
       IN  /\ f.j > Len(f.attrs)
           /\ always' = [always EXCEPT ![f.cl] = @ \ f.removed]
           /\ seen' = seen \cup {f.cl}
           /\ log' = log \o <<Event("propagate", "write", f.cl, "always",
                                    always[f.cl] \ f.removed),
                              Event("propagate", "visit", f.cl, None, {})>>
           /\ stack' = SubSeq(stack, 1, Len(stack) - 1)
    /\ UNCHANGED <<ir, class_irs, pc, idx, sometimes, init_self_leak,
                   bitmap_attrs, is_init, flow>>

\* The loop of the second pass is over
PDone ==
    /\ pc = "propagate" /\ stack = <<>> /\ idx > Len(class_irs)
    /\ pc' = "propagated"
    /\ UNCHANGED <<ir, class_irs, idx, seen, always, sometimes, init_self_leak,
                   bitmap_attrs, is_init, flow, log, stack>>

PropNext == PCall \/ PRecurse \/ POverflow \/ PTest \/ PNextAttr \/ PReturn \/ PDone

PropSpec == PropInit /\ [][PropNext]_vars

\* The positions of the history where the propagator entered the body of c
PropagatorBodies(c) ==
    {k \in DOMAIN log : /\ log[k].pass = "propagate" /\ log[k].kind = "body"
                        /\ log[k].cl = c}

\* C24: the propagator enters the body of each class at most once and its
\* recursion ends, whatever the children relation is
PropagatorBodyOnce ==
    /\ pc # "overflow"
    /\ \A c \in DOMAIN ir : Cardinality(PropagatorBodies(c)) <= 1

(***************************************************************************)
(* C25.  Traits and the bitmap.                                            *)
(***************************************************************************)
\* The attributes declared by a trait of c's MRO that need a slot in c:
\* error_overlap representation and not always defined in c
TraitAttrsNeedingSlot(c) ==
    UNION {{v \in Range(ir[t].attributes) :
               v \in ir[t].error_overlap /\ ~is_always_defined(ir, always, c, v)} :
           t \in {t \in Range(ir[c].mro) \ {c} : ir[t].is_trait}}

\* No name occurs twice in sequence s
NoDuplicates(s) == \A i, j \in DOMAIN s : s[i] = s[j] => i = j

\* C25: the bitmap pass never writes bitmap_attrs of a trait; when it is
\* done, bitmap_attrs of a non-trait class has every attribute of the traits
\* of its MRO that needs a slot; no bitmap_attrs has a name twice
TraitsAndBitmap ==
    \A c \in DOMAIN ir :
        /\ ir[c].is_trait =>
              bitmap_attrs[c] = <<>> /\ WritesTo("bitmap", c, "bitmap_attrs") = {}
        /\ (pc = "done" /\ ~ir[c].is_trait) =>
              TraitAttrsNeedingSlot(c) \subseteq Range(bitmap_attrs[c])
        /\ NoDuplicates(bitmap_attrs[c])

(***************************************************************************)
(* C26.  Attributes nothing defines.                                       *)
(***************************************************************************)
\* The attributes of the analysis of c that have no default, are never
\* written on the receiver in the constructor, and that no class whose
\* __init__ the constructor calls always or sometimes initializes
NeverDefined(c) ==
    {a \in flow[c].all_attrs :
        /\ a \notin ir[c].attrs_with_defaults
        /\ WritesOf(InitBlocks(c), a) = {}
        /\ \A p \in InitCalls(c) :
              a \notin flow[c].maybe_init_attrs[OpAt(InitBlocks(c), p).init_of]}

\* C26: an attribute that nothing defines is not in always_initialized_attrs
\* of an analysed class, whatever the constructor's CFG is
NeverDefinedNeverAlways ==
    \A c \in Analysed :
        /\ NeverDefined(c) \cap flow[c].always_defined = {}
        /\ NeverDefined(c) \cap always[c] = {}

(***************************************************************************)
(* C27.  __init__ calls on another object.                                 *)
(***************************************************************************)
\* The __init__ calls of the constructor analysed for c whose receiver
\* argument is not the constructor's own receiver
InitCallsOnOther(c) == {p \in InitCalls(c) : ~OpAt(InitBlocks(c), p).obj_self}

\* C27: an __init__ call on another object defines nothing: the
\* maybe-defined and maybe-undefined sets after it are those before it
InitCallOnOtherDefinesNothing ==
    \A c \in Analysed : \A p \in InitCallsOnOther(c) :
        /\ flow[c].maybe_defined.after[p[1]][p[2]] =
               flow[c].maybe_defined.before[p[1]][p[2]]
        /\ flow[c].maybe_undefined.after[p[1]][p[2]] =
               flow[c].maybe_undefined.before[p[1]][p[2]]

(***************************************************************************)
(* C28  Defaults are always defined                                        *)
(***************************************************************************)
\* The attributes of c with a class-body default that are declared in the
\* MRO of c and are not deletable
KeptDefaults(c) ==
    {a \in ir[c].attrs_with_defaults \cap flow[c].all_attrs : ~is_deletable(ir, c, a)}

\* C28: for every analysed class whose constructor has all its blocks
\* reachable from the entry, every attribute with a class-body default that
\* is declared in the MRO and is not deletable is in the always-defined set
\* the resolver writes, whatever the constructor does.
DefaultsAlwaysDefined ==
    \A c \in Analysed :
        AllBlocksReachable(InitBlocks(c)) =>
            /\ KeptDefaults(c) \subseteq flow[c].always_defined
            /\ KeptDefaults(c) \subseteq ResolverAlways(c)

\* A constructor that reads a default attribute without ever writing it,
\* lets self escape and has more than one block, all of them reachable
DefaultKeptThroughEscape ==
    /\ pc = "done"
    /\ \E c \in Analysed :
          /\ AllBlocksReachable(InitBlocks(c))
          /\ Len(InitBlocks(c)) > 1
          /\ EscapeOps(c) # {}
          /\ \E a \in KeptDefaults(c) :
                /\ a \in ResolverAlways(c)
                /\ \E p \in Points(InitBlocks(c)) :
                      /\ OpAt(InitBlocks(c), p).kind = "GetAttr"
                      /\ OpAt(InitBlocks(c), p).attr = a
                /\ \A p \in Points(InitBlocks(c)) :
                      ~(OpAt(InitBlocks(c), p).kind = "SetAttr"
                        /\ OpAt(InitBlocks(c), p).attr = a)

(***************************************************************************)
(* C29  Shared constructors and tags                                       *)
(***************************************************************************)
\* The write op a tag <<m, b, i>> of is_init is on
TaggedOp(t) == ir[t[1]].init_blocks[t[2]][t[3]]

\* Tags on a constructor analysed for several classes whose target has a
\* class-body default in one of those classes
TagsOnDefaults ==
    {t \in is_init :
        /\ Cardinality(AnalysedWith(t[1])) > 1
        /\ \E c \in AnalysedWith(t[1]) : TaggedOp(t).attr \in ir[c].attrs_with_defaults}

\* A tag, once set, stays set
TagsNeverCleared == [][is_init \subseteq is_init']_vars

\* C29: when one constructor is analysed for several classes, every write
\* tagged as initializing targets an attribute without a class-body default
\* in each of those classes, and a tag set while analysing one class is
\* never cleared by analysing another.
SharedConstructorTags ==
    /\ [](TagsOnDefaults = {})
    /\ TagsNeverCleared

====
